---- MODULE Spec2Model ----
(***************************************************************************)
(* Model of the PPO training-update core of                                *)
(* tf_agents/agents/ppo/ppo_agent.py (class PPOAgent).                      *)
(*                                                                         *)
(* Tensors of float32 are modelled as exact rationals.  TLC's integers are *)
(* 32 bits wide and the adaptive-KL floor is 10e-16, so rationals are      *)
(* built on arbitrary-precision naturals (little-endian digit sequences).  *)
(***************************************************************************)
EXTENDS Integers, Sequences, FiniteSets, TLC

\* ------------------------------------------------------------------------
\* Arbitrary-precision naturals: little-endian sequences of digits in
\* 0..Radix-1 without a most-significant zero; zero is the empty sequence.
\* ------------------------------------------------------------------------
Radix == 100 * 100

RECURSIVE BigOfNat(_)
BigOfNat(n) ==
  IF n = 0 THEN <<>> ELSE <<n % Radix>> \o BigOfNat(n \div Radix)

RECURSIVE BigNorm(_)
BigNorm(a) ==
  IF a = <<>> THEN <<>>
  ELSE IF a[Len(a)] = 0 THEN BigNorm(SubSeq(a, 1, Len(a) - 1))
  ELSE a

BigHd(a) == IF a = <<>> THEN 0 ELSE Head(a)
BigTl(a) == IF a = <<>> THEN <<>> ELSE Tail(a)

RECURSIVE BigAddC(_, _, _)
BigAddC(a, b, c) ==
  IF a = <<>> /\ b = <<>>
  THEN (IF c = 0 THEN <<>> ELSE <<c>>)
  ELSE LET x == BigHd(a) + BigHd(b) + c
       IN  <<x % Radix>> \o BigAddC(BigTl(a), BigTl(b), x \div Radix)

BigAdd(a, b) == BigAddC(a, b, 0)

\* a - b for a >= b
RECURSIVE BigSubB(_, _, _)
BigSubB(a, b, br) ==
  IF a = <<>> THEN <<>>
  ELSE LET x == BigHd(a) - BigHd(b) - br
       IN  IF x < 0
           THEN <<x + Radix>> \o BigSubB(BigTl(a), BigTl(b), 1)
           ELSE <<x>> \o BigSubB(BigTl(a), BigTl(b), 0)

BigSub(a, b) == BigNorm(BigSubB(a, b, 0))

\* -1, 0, 1 as a < b, a = b, a > b
RECURSIVE BigCmpFrom(_, _, _)
BigCmpFrom(a, b, i) ==
  IF i = 0 THEN 0
  ELSE IF a[i] < b[i] THEN -1
  ELSE IF a[i] > b[i] THEN 1
  ELSE BigCmpFrom(a, b, i - 1)

BigCmp(a, b) ==
  IF Len(a) < Len(b) THEN -1
  ELSE IF Len(a) > Len(b) THEN 1
  ELSE BigCmpFrom(a, b, Len(a))

\* a * m for a digit-sized m
RECURSIVE BigMulSmallC(_, _, _)
BigMulSmallC(a, m, c) ==
  IF a = <<>> THEN BigOfNat(c)
  ELSE LET x == Head(a) * m + c
       IN  <<x % Radix>> \o BigMulSmallC(Tail(a), m, x \div Radix)

BigMulSmall(a, m) == IF m = 0 THEN <<>> ELSE BigMulSmallC(a, m, 0)

BigShift(a) == IF a = <<>> THEN <<>> ELSE <<0>> \o a

RECURSIVE BigMul(_, _)
BigMul(a, b) ==
  IF a = <<>> \/ b = <<>> THEN <<>>
  ELSE BigAdd(BigMulSmall(a, Head(b)), BigShift(BigMul(a, Tail(b))))

\* a mod m and a div m for a digit-sized m > 0, most significant digit first
RECURSIVE BigModSmallR(_, _, _, _)
BigModSmallR(a, m, i, r) ==
  IF i = 0 THEN r
  ELSE BigModSmallR(a, m, i - 1, (r * Radix + a[i]) % m)

BigModSmall(a, m) == BigModSmallR(a, m, Len(a), 0)

RECURSIVE BigDivSmallR(_, _, _, _)
BigDivSmallR(a, m, i, r) ==
  IF i = 0 THEN <<>>
  ELSE LET x == r * Radix + a[i]
       IN  BigDivSmallR(a, m, i - 1, x % m) \o <<x \div m>>

BigDivSmall(a, m) == BigNorm(BigDivSmallR(a, m, Len(a), 0))

RECURSIVE BigPow10(_)
BigPow10(k) == IF k = 0 THEN <<1>> ELSE BigMulSmall(BigPow10(k - 1), 10)

\* ------------------------------------------------------------------------
\* Exact rationals [neg, num, den]: den > 0, zero is never negative.
\* Common factors 2, 3, 5 and 7 are cancelled, which is canonical for the
\* values of this model; comparisons cross-multiply and never depend on it.
\* ------------------------------------------------------------------------
RECURSIVE QCancel(_, _, _)
QCancel(n, d, primes) ==
  IF primes = <<>> THEN <<n, d>>
  ELSE IF BigModSmall(n, Head(primes)) = 0 /\ BigModSmall(d, Head(primes)) = 0
  THEN QCancel(BigDivSmall(n, Head(primes)), BigDivSmall(d, Head(primes)),
               primes)
  ELSE QCancel(n, d, Tail(primes))

QRec(neg, nd) == [neg |-> neg, num |-> nd[1], den |-> nd[2]]

QMk(neg, n, d) ==
  IF n = <<>> THEN [neg |-> FALSE, num |-> <<>>, den |-> <<1>>]
  ELSE QRec(neg, QCancel(n, d, <<2, 3, 5, 7>>))

\* the rational n/d of two integers, d > 0
Q(n, d) == QMk(n < 0, BigOfNat(IF n < 0 THEN -n ELSE n), BigOfNat(d))

QZero == Q(0, 1)
QOne  == Q(1, 1)

QNeg(x) == IF x.num = <<>> THEN x ELSE [x EXCEPT !.neg = ~x.neg]

QMul(x, y) ==
  QMk(x.neg # y.neg, BigMul(x.num, y.num), BigMul(x.den, y.den))

\* x / y for y # 0
QDiv(x, y) == QMk(x.neg # y.neg, BigMul(x.num, y.den), BigMul(x.den, y.num))

\* signed sum of the magnitudes a (sign sa) and b (sign sb), over the
\* denominator d
QSigned(sa, a, sb, b, d, c) ==
  IF sa = sb THEN QMk(sa, BigAdd(a, b), d)
  ELSE QMk(IF c >= 0 THEN sa ELSE sb,
           BigSub(IF c >= 0 THEN a ELSE b, IF c >= 0 THEN b ELSE a), d)

QAddOver(sa, a, sb, b, d) == QSigned(sa, a, sb, b, d, BigCmp(a, b))

QAdd(x, y) ==
  QAddOver(x.neg, BigMul(x.num, y.den), y.neg, BigMul(y.num, x.den),
           BigMul(x.den, y.den))

QSub(x, y) == QAdd(x, QNeg(y))

\* sign of x - y: -1, 0 or 1
QCmp(x, y) ==
  IF x.neg # y.neg THEN (IF x.neg THEN -1 ELSE 1)
  ELSE (IF x.neg THEN -1 ELSE 1)
         * BigCmp(BigMul(x.num, y.den), BigMul(y.num, x.den))

QLess(x, y)    == QCmp(x, y) < 0
QGreater(x, y) == QCmp(x, y) > 0
QEq(x, y)      == QCmp(x, y) = 0
QLeq(x, y)     == QCmp(x, y) <= 0

QMax(x, y) == IF QLess(x, y) THEN y ELSE x
QMin(x, y) == IF QLess(y, x) THEN y ELSE x

RECURSIVE QSum(_)
QSum(s) == IF s = <<>> THEN QZero ELSE QAdd(Head(s), QSum(Tail(s)))

\* tf.reduce_mean over a non-empty tensor
QMean(s) == QDiv(QSum(s), Q(Len(s), 1))

\* ------------------------------------------------------------------------
\* Bounds of the model
\* ------------------------------------------------------------------------
MaxCalls  == 2    \* training calls per behaviour
MaxEpochs == 2    \* largest num_epochs the constructor is given
TimeLen   == 2    \* transitions per batch row (trajectory length - 1)

VARIABLES
  cfg,                     \* constructor arguments kept by __init__
  weights,                 \* version of the network weights (optimizer steps applied)
  adaptive_kl_beta,        \* self._adaptive_kl_beta, None when disabled
  reward_normalizer,       \* NormalizerStats of self._reward_normalizer
  observation_normalizer,  \* NormalizerStats of self._observation_normalizer
  status,                  \* "idle", "running" or "failed" (the current call)
  calls,                   \* training calls started
  experience,              \* the batch of the current call
  policy_kl,               \* KL(old || current policy) per timestep at the current weights
  tensors,                 \* values computed by the ops of the current call
  log,                     \* ops of the current call in execution order, with what each saw
  start,                   \* the agent's state when the current call started, the call's
                           \* ops, and the beta update of the call before it
  fn_in,                   \* arguments of a direct call of a pure method
  fn_out                   \* its result

vars == <<cfg, weights, adaptive_kl_beta, reward_normalizer,
          observation_normalizer, status, calls, experience, policy_kl,
          tensors, log, start, fn_in, fn_out>>

agent_vars == <<cfg, weights, adaptive_kl_beta, reward_normalizer,
                observation_normalizer>>
call_vars  == <<status, calls, experience, policy_kl, tensors, log, start>>
fn_vars    == <<fn_in, fn_out>>

\* Python's None for a float variable, and for a normalizer
None         == [neg |-> FALSE, num |-> <<>>, den |-> <<>>]
NoNormalizer == [count |-> -1]

\* ------------------------------------------------------------------------
\* AdaptiveKLController: update_adaptive_kl_beta
\* ------------------------------------------------------------------------
\* 10e-16, the floor of tf.maximum
Floor == QMk(FALSE, <<1>>, BigPow10(15))

\* the lower bound taken as part of the band's outside
mean_kl_below_or_on_bound(mean_kl, c) ==
  QLeq(mean_kl,
       QMul(c.adaptive_kl_target, QSub(QOne, c.adaptive_kl_tolerance)))

mean_kl_below_bound(mean_kl, c) ==
  QLess(mean_kl,
        QMul(c.adaptive_kl_target, QSub(QOne, c.adaptive_kl_tolerance)))

mean_kl_above_bound(mean_kl, c) ==
  QGreater(mean_kl,
           QMul(c.adaptive_kl_target, QAdd(QOne, c.adaptive_kl_tolerance)))

\* tf.case(..., exclusive=True): fails when more than one predicate is true
CaseExclusiveFails(mean_kl, c) ==
  mean_kl_below_bound(mean_kl, c) /\ mean_kl_above_bound(mean_kl, c)

adaptive_kl_update_factor(mean_kl, c) ==
  IF mean_kl_below_bound(mean_kl, c) THEN QDiv(QOne, Q(3, 2))
  ELSE IF mean_kl_above_bound(mean_kl, c) THEN Q(3, 2)
  ELSE QOne

\* the update without its floor
new_adaptive_kl_beta_unfloored(beta, mean_kl, c) ==
  QMul(beta, adaptive_kl_update_factor(mean_kl, c))

new_adaptive_kl_beta(beta, mean_kl, c) ==
  QMax(QMul(beta, adaptive_kl_update_factor(mean_kl, c)), Floor)

\* the whole method on the KL tensor it is given:
\* [ok, beta]; ok = FALSE is the failed exclusive case, beta then unassigned
update_adaptive_kl_beta(beta, kl_divergence, c) ==
  IF beta = None THEN [ok |-> TRUE, beta |-> None, mean_kl |-> QZero]
  ELSE LET mean_kl == QMean(kl_divergence)
       IN  IF CaseExclusiveFails(mean_kl, c)
           THEN [ok |-> FALSE, beta |-> beta, mean_kl |-> mean_kl]
           ELSE [ok |-> TRUE,
                 beta |-> new_adaptive_kl_beta(beta, mean_kl, c),
                 mean_kl |-> mean_kl]

\* ------------------------------------------------------------------------
\* ReturnAdvantageEstimator: compute_returns, compute_advantages
\* A batch row is a sequence over time; a failed shape check is ok = FALSE.
\* ------------------------------------------------------------------------
\* the discount applied to the reward as well
discounted_accumulate_all(next_step_return, reward, discount) ==
  QMul(QAdd(next_step_return, reward), discount)

discounted_accumulate_rewards(next_step_return, reward, discount) ==
  QAdd(QMul(next_step_return, discount), reward)

\* tf.scan(discounted_accumulate_rewards, [rewards, discounts], reverse=True,
\*         initializer=zeros): elements i..1 are visited, acc is the carry
RECURSIVE ScanReturns(_, _, _, _)
ScanReturns(rewards, discounts, i, acc) ==
  IF i = 0 THEN <<>>
  ELSE LET r == discounted_accumulate_rewards(acc, rewards[i], discounts[i])
       IN  ScanReturns(rewards, discounts, i - 1, r) \o <<r>>

compute_returns(rewards, discounts) ==
  IF Len(rewards) # Len(discounts)
  THEN [ok |-> FALSE, val |-> <<>>]
  ELSE [ok |-> TRUE,
        val |-> ScanReturns(rewards, discounts, Len(rewards), QZero)]

\* the carry not discounted
gae_step_undiscounted(next_step_val, delta, discount, lambda) ==
  QAdd(delta, QMul(next_step_val, lambda))

gae_step(next_step_val, delta, discount, lambda) ==
  QAdd(delta, QMul(QMul(discount, next_step_val), lambda))

RECURSIVE ScanAdvantages(_, _, _, _, _)
ScanAdvantages(deltas, discounts, lambda, i, acc) ==
  IF i = 0 THEN <<>>
  ELSE LET a == gae_step(acc, deltas[i], discounts[i], lambda)
       IN  ScanAdvantages(deltas, discounts, lambda, i - 1, a) \o <<a>>

\* rewards + discounts * next_value_preds - value_preds, elementwise
Deltas(rewards, discounts, next_value_preds, value_preds) ==
  [t \in 1..Len(rewards) |->
     QSub(QAdd(rewards[t], QMul(discounts[t], next_value_preds[t])),
          value_preds[t])]

\* value_preds carries the trailing next-step value; the inputs have equal
\* length L and value_preds has length L + 1
compute_advantages(rewards, returns, discounts, value_preds_in, use_gae, lambda) ==
  LET next_value_preds == Tail(value_preds_in)
      value_preds == SubSeq(value_preds_in, 1, Len(value_preds_in) - 1)
  IN  IF ~use_gae
      THEN [t \in 1..Len(returns) |-> QSub(returns[t], value_preds[t])]
      ELSE ScanAdvantages(
             Deltas(rewards, discounts, next_value_preds, value_preds),
             discounts, lambda, Len(rewards), QZero)

\* an elementwise binary op on one batch row: a time axis of length 1 is
\* broadcast, any other difference of lengths is an error
TfCompatible(a, b) == Len(a) = Len(b) \/ Len(a) = 1 \/ Len(b) = 1

TfBroadcastLen(a, b) == IF Len(a) >= Len(b) THEN Len(a) ELSE Len(b)

TfAt(a, t) == IF Len(a) = 1 THEN a[1] ELSE a[t]

\* tf.add(a, b)
TfAdd(a, b) ==
  IF TfCompatible(a, b)
  THEN [ok |-> TRUE,
        val |-> [t \in 1..TfBroadcastLen(a, b) |-> QAdd(TfAt(a, t), TfAt(b, t))]]
  ELSE [ok |-> FALSE, val |-> <<>>]

\* _normalize_advantages: (advantages - mean) / (sqrt(variance) + 1e-8), held
\* as the centred advantages and the variance, which determine it
normalize_advantages(advantages) ==
  LET adv_mean == QMean(advantages)
      centred  == [t \in 1..Len(advantages) |-> QSub(advantages[t], adv_mean)]
  IN  [centred  |-> centred,
       variance |-> QMean([t \in 1..Len(advantages) |->
                             QMul(centred[t], centred[t])])]

\* the TD-lambda returns taken whenever use_td_lambda_return is set
compute_return_and_advantage_td_without_gae(rewards, discounts, value_preds, use_gae, use_td_lambda_return, lambda) ==
  LET returns == compute_returns(rewards, discounts)
      advantages == compute_advantages(rewards, returns.val, discounts,
                                       value_preds, use_gae, lambda)
      td_lambda_returns == TfAdd(advantages, value_preds)
  IN  IF ~returns.ok
      THEN [ok |-> FALSE, returns |-> <<>>, advantages |-> <<>>,
            normalized_advantages |-> <<>>]
      ELSE IF use_td_lambda_return
      THEN [ok |-> td_lambda_returns.ok, returns |-> td_lambda_returns.val,
            advantages |-> IF td_lambda_returns.ok THEN advantages ELSE <<>>,
            normalized_advantages |->
              IF td_lambda_returns.ok THEN normalize_advantages(advantages)
              ELSE <<>>]
      ELSE [ok |-> TRUE, returns |-> returns.val, advantages |-> advantages,
            normalized_advantages |-> normalize_advantages(advantages)]

\* compute_return_and_advantage from the Monte Carlo returns on: rewards are
\* the (normalized) rewards and discounts the discounts already multiplied
\* by the discount factor and the episode mask; value_preds has the trailing
\* next-step value.  advantages are the raw ones, which the TD-lambda
\* returns are made of; normalized_advantages is what the caller receives.
compute_return_and_advantage(rewards, discounts, value_preds, use_gae, use_td_lambda_return, lambda) ==
  LET returns == compute_returns(rewards, discounts)
      advantages == compute_advantages(rewards, returns.val, discounts,
                                       value_preds, use_gae, lambda)
      td_lambda_returns == TfAdd(advantages, value_preds)
  IN  IF ~returns.ok
      THEN [ok |-> FALSE, returns |-> <<>>, advantages |-> <<>>,
            normalized_advantages |-> <<>>]
      ELSE IF use_td_lambda_return /\ use_gae
      THEN [ok |-> td_lambda_returns.ok, returns |-> td_lambda_returns.val,
            advantages |-> IF td_lambda_returns.ok THEN advantages ELSE <<>>,
            normalized_advantages |->
              IF td_lambda_returns.ok THEN normalize_advantages(advantages)
              ELSE <<>>]
      ELSE [ok |-> TRUE, returns |-> returns.val, advantages |-> advantages,
            normalized_advantages |-> normalize_advantages(advantages)]

\* ------------------------------------------------------------------------
\* The estimator on one batch row of any lengths.  A tensor is held with the
\* outcome of the op that made it: ok is FALSE once an op has raised.
\* ------------------------------------------------------------------------
Tensor(v) == [ok |-> TRUE, val |-> v]

\* the scalar op behind tf.add, tf.subtract and tf.multiply
ScalarOp(op, x, y) ==
  CASE op = "add" -> QAdd(x, y)
    [] op = "sub" -> QSub(x, y)
    [] op = "mul" -> QMul(x, y)

\* an elementwise binary op: a time axis of length 1 is broadcast, any other
\* difference of lengths raises
TfElementwise(op, a, b) ==
  IF a.ok /\ b.ok /\ TfCompatible(a.val, b.val)
  THEN [ok |-> TRUE,
        val |-> [t \in 1..TfBroadcastLen(a.val, b.val) |->
                   ScalarOp(op, TfAt(a.val, t), TfAt(b.val, t))]]
  ELSE [ok |-> FALSE, val |-> <<>>]

\* compute_advantages as written: no check of its own.  error is "none" when
\* advantages are returned, "elementwise" when an arithmetic op rejects its
\* operands, "scan" when tf.scan finds deltas and discounts of different
\* lengths while unstacking and reading its elements.  returns is not read
\* with GAE; rewards and discounts are not read without it.
compute_advantages_any_shape(rewards, returns, discounts, value_preds_in, use_gae, lambda) ==
  LET next_value_preds == Tail(value_preds_in)
      value_preds == SubSeq(value_preds_in, 1, Len(value_preds_in) - 1)
      empirical == TfElementwise("sub", Tensor(returns), Tensor(value_preds))
      deltas ==
        TfElementwise("sub",
          TfElementwise("add", Tensor(rewards),
            TfElementwise("mul", Tensor(discounts), Tensor(next_value_preds))),
          Tensor(value_preds))
  IN  IF ~use_gae
      THEN [error |-> IF empirical.ok THEN "none" ELSE "elementwise",
            val   |-> empirical.val]
      ELSE IF ~deltas.ok
      THEN [error |-> "elementwise", val |-> <<>>]
      ELSE IF Len(deltas.val) # Len(discounts)
      THEN [error |-> "scan", val |-> <<>>]
      ELSE [error |-> "none",
            val   |-> ScanAdvantages(deltas.val, discounts, lambda,
                                     Len(deltas.val), QZero)]

\* ------------------------------------------------------------------------
\* Construction
\* ------------------------------------------------------------------------
\* the beta variable created for an initial value of 0 as well
InitAdaptiveKLBetaForNonNegative(initial_adaptive_kl_beta) ==
  IF QLeq(QZero, initial_adaptive_kl_beta)
  THEN initial_adaptive_kl_beta ELSE None

\* __init__: the beta variable exists only for a positive initial value
InitAdaptiveKLBeta(initial_adaptive_kl_beta) ==
  IF QGreater(initial_adaptive_kl_beta, QZero)
  THEN initial_adaptive_kl_beta ELSE None

\* __init__: a normalizer exists only when its flag is set
InitNormalizer(flag) == IF flag THEN [count |-> 0] ELSE NoNormalizer

\* StreamingTensorNormalizer.update folds n samples into the running moments
NormalizerUpdate(stats, n) == [count |-> stats.count + n]

\* initial betas: disabled, the default 1.0, and 1e-16, positive and below the
\* floor
BetaInits == {QZero, QOne, QMul(Q(1, 10), Floor)}

Configs ==
  [num_epochs               : 1..MaxEpochs,
   initial_adaptive_kl_beta : BetaInits,
   adaptive_kl_target       : {Q(1, 100)},
   adaptive_kl_tolerance    : {Q(3, 10)},
   kl_cutoff_factor         : {Q(2, 1)},
   kl_cutoff_coef           : {Q(1000, 1)},
   normalize_rewards        : BOOLEAN,
   normalize_observations   : BOOLEAN]

\* ------------------------------------------------------------------------
\* The batch and what the collaborators return for it
\* ------------------------------------------------------------------------
StepTypes == {"FIRST", "MID", "LAST"}

\* next_time_steps.step_type of one batch row: FIRST follows LAST and only
\* LAST, and the row does not begin on an episode's last step
Experiences ==
  {e \in [1..TimeLen -> StepTypes] :
     /\ e[1] # "FIRST"
     /\ \A t \in 1..(TimeLen - 1) : (e[t + 1] = "FIRST") <=> (e[t] = "LAST")}

\* ppo_utils.make_timestep_mask: 0 between episodes and in the unfinished
\* episode at the end of the row
make_timestep_mask(next_step_type) ==
  [t \in 1..Len(next_step_type) |->
     IF /\ next_step_type[t] # "FIRST"
        /\ \E k \in t..Len(next_step_type) : next_step_type[k] = "LAST"
     THEN QOne ELSE QZero]

\* per-timestep KL(old || current) the actor network can produce: one value on
\* the last timestep, one on the others
KLTensor(a, b) == [t \in 1..TimeLen |-> IF t = TimeLen THEN a ELSE b]

KLTensors ==
  {KLTensor(QZero, QZero), KLTensor(Q(1, 100), Q(1, 100)),
   KLTensor(Q(3, 100), Q(1, 100))}

ZeroKL == KLTensor(QZero, QZero)

\* at the start of a call the current policy is the one that collected the
\* batch, or one a few updates away from it
StartKLTensors == {ZeroKL}

TensorMul(a, b) == [t \in 1..Len(a) |-> QMul(a[t], b[t])]

\* ------------------------------------------------------------------------
\* LossAssembler: the KL penalty
\* ------------------------------------------------------------------------
\* the penalty without the early return for a factor that is not positive
kl_cutoff_loss_unguarded(kl_divergence, c) ==
  LET kl_cutoff == QMul(c.kl_cutoff_factor, c.adaptive_kl_target)
      mean_kl == QMean(kl_divergence)
      kl_over_cutoff == QMax(QSub(mean_kl, kl_cutoff), QZero)
  IN  QMul(c.kl_cutoff_coef, QMul(kl_over_cutoff, kl_over_cutoff))

\* a factor that is not positive returns the constant 0 before anything else
kl_cutoff_loss(kl_divergence, c) ==
  IF QLeq(c.kl_cutoff_factor, QZero) THEN QZero
  ELSE LET kl_cutoff == QMul(c.kl_cutoff_factor, c.adaptive_kl_target)
           mean_kl == QMean(kl_divergence)
           kl_over_cutoff == QMax(QSub(mean_kl, kl_cutoff), QZero)
       IN  QMul(c.kl_cutoff_coef, QMul(kl_over_cutoff, kl_over_cutoff))

adaptive_kl_loss(kl_divergence, beta) ==
  IF beta = None THEN QZero
  ELSE QMul(beta, QMean(kl_divergence))

\* kl against the current policy, masked, then the two terms
kl_penalty_loss(kl, valid_mask, beta, c) ==
  LET kl_divergence == TensorMul(kl, valid_mask)
  IN  QAdd(kl_cutoff_loss(kl_divergence, c),
           adaptive_kl_loss(kl_divergence, beta))

\* ------------------------------------------------------------------------
\* LossAssembler: the policy-gradient loss.  A log-probability x is held as
\* the rational exp(x) (the probability or density itself), so exp and the
\* difference of logs are exact: exp(a - b) is a / b, and clipping a log to
\* [-c, c] is clipping its exponential to [1/exp(c), exp(c)].  The setting
\* log_prob_clipping = c is held as exp_log_prob_clipping = exp(c), so
\* c > 0 is exp(c) > 1.
\* ------------------------------------------------------------------------
\* tf.clip_by_value(t, lo, hi)
clip_by_value(t, clip_value_min, clip_value_max) ==
  QMax(QMin(t, clip_value_max), clip_value_min)

\* the clip left out
action_log_prob_unclipped(action_prob, c) == action_prob

\* action_log_prob after the optional clip, as its exponential
action_log_prob(action_prob, c) ==
  IF QGreater(c.exp_log_prob_clipping, QOne)
  THEN clip_by_value(action_prob, QDiv(QOne, c.exp_log_prob_clipping),
                     c.exp_log_prob_clipping)
  ELSE action_prob

\* exp(action_log_prob - sample_action_log_probs)
importance_ratio(action_prob, sample_action_prob, c) ==
  QDiv(action_log_prob(action_prob, c), sample_action_prob)

importance_ratio_clipped(ratio, c) ==
  clip_by_value(ratio, QSub(QOne, c.importance_ratio_clipping),
                QAdd(QOne, c.importance_ratio_clipping))

\* the larger of the two objectives taken
per_timestep_objective_max(ratio, advantage, c) ==
  QMax(QMul(ratio, advantage),
       QMul(importance_ratio_clipped(ratio, c), advantage))

per_timestep_objective_min(ratio, advantage, c) ==
  QMin(QMul(ratio, advantage),
       QMul(importance_ratio_clipped(ratio, c), advantage))

\* the objective the loss negates at one timestep
per_timestep_objective(ratio, advantage, c) ==
  IF QGreater(c.importance_ratio_clipping, QZero)
  THEN per_timestep_objective_min(ratio, advantage, c)
  ELSE QMul(ratio, advantage)

ImportanceRatios(action_probs, sample_action_probs, c) ==
  [t \in 1..Len(action_probs) |->
     importance_ratio(action_probs[t], sample_action_probs[t], c)]

Objectives(ratios, advantages, c) ==
  [t \in 1..Len(ratios) |-> per_timestep_objective(ratios[t], advantages[t], c)]

\* tf.reduce_mean(-objective * valid_mask)
MaskedMeanOfNegated(objectives, valid_mask) ==
  QMean([t \in 1..Len(objectives) |->
           QMul(QNeg(objectives[t]), valid_mask[t])])

policy_gradient_loss(action_probs, sample_action_probs, advantages, valid_mask, c) ==
  [importance_ratio |-> ImportanceRatios(action_probs, sample_action_probs, c),
   objective |-> Objectives(ImportanceRatios(action_probs, sample_action_probs, c),
                            advantages, c),
   loss |-> MaskedMeanOfNegated(
              Objectives(ImportanceRatios(action_probs, sample_action_probs, c),
                         advantages, c), valid_mask)]

\* ------------------------------------------------------------------------
\* LossAssembler: the other terms and the total of one epoch
\* ------------------------------------------------------------------------
\* tf.reduce_mean(tf.squared_difference(returns, value_preds) * valid_mask)
\*   * value_pred_loss_coef
value_estimation_loss(returns, value_preds, valid_mask, c) ==
  QMul(QMean([t \in 1..Len(returns) |->
                QMul(QMul(QSub(returns[t], value_preds[t]),
                          QSub(returns[t], value_preds[t])), valid_mask[t])]),
       c.value_pred_loss_coef)

\* tf.reduce_mean(-entropy * valid_mask) * entropy_regularization
entropy_regularization_loss(entropy, valid_mask, c) ==
  IF QGreater(c.entropy_regularization, QZero)
  THEN QMul(QMean([t \in 1..Len(entropy) |->
                     QMul(QNeg(entropy[t]), valid_mask[t])]),
            c.entropy_regularization)
  ELSE QZero

\* the sums of squares of the kernels of the two networks, each times its
\* coefficient
l2_regularization_loss(policy_kernel_sq, value_kernel_sq, c) ==
  IF QGreater(c.policy_l2_reg, QZero) \/ QGreater(c.value_function_l2_reg, QZero)
  THEN QAdd(QMul(policy_kernel_sq, c.policy_l2_reg),
            QMul(value_kernel_sq, c.value_function_l2_reg))
  ELSE QZero

\* the total without the KL penalty
total_loss_without_kl(pg, ve, l2, ent, kl) ==
  QAdd(QAdd(QAdd(pg, ve), l2), ent)

total_loss(pg, ve, l2, ent, kl) ==
  QAdd(QAdd(QAdd(QAdd(pg, ve), l2), ent), kl)

FiveLosses(pg, ve, l2, ent, kl) ==
  [policy_gradient_loss        |-> pg,
   value_estimation_loss       |-> ve,
   l2_regularization_loss      |-> l2,
   entropy_regularization_loss |-> ent,
   kl_penalty_loss             |-> kl,
   total_loss                  |-> total_loss(pg, ve, l2, ent, kl)]

\* build_train_op: the five losses of one epoch and their total; b holds the
\* batch and what the networks give for it at the current weights
build_train_op(b, valid_mask, beta, c) ==
  FiveLosses(
    policy_gradient_loss(b.action_probs, b.sample_action_probs, b.advantages,
                         valid_mask, c).loss,
    value_estimation_loss(b.returns, b.value_preds, valid_mask, c),
    IF QGreater(c.policy_l2_reg, QZero) \/ QGreater(c.value_function_l2_reg, QZero)
    THEN l2_regularization_loss(b.policy_kernel_sq, b.value_kernel_sq, c)
    ELSE QZero,
    IF QGreater(c.entropy_regularization, QZero)
    THEN entropy_regularization_loss(b.entropy, valid_mask, c)
    ELSE QZero,
    kl_penalty_loss(b.kl, valid_mask, beta, c))

QAbs(x) == IF x.neg THEN QNeg(x) ELSE x

\* tf.add_n over the epochs of one of the five losses
RECURSIVE AddN(_, _)
AddN(epoch_losses, name) ==
  IF epoch_losses = <<>> THEN QZero
  ELSE QAdd(Head(epoch_losses)[name], AddN(Tail(epoch_losses), name))

\* the total_loss summary of train_from_experience
summary_total_loss(epoch_losses) ==
  QAdd(QAdd(QAdd(QAdd(
    QAbs(AddN(epoch_losses, "policy_gradient_loss")),
    QAbs(AddN(epoch_losses, "value_estimation_loss"))),
    QAbs(AddN(epoch_losses, "entropy_regularization_loss"))),
    QAbs(AddN(epoch_losses, "l2_regularization_loss"))),
    QAbs(AddN(epoch_losses, "kl_penalty_loss")))

\* ------------------------------------------------------------------------
\* EpochScheduler: train_from_experience builds one graph per call; the
\* session runs an op once every op it depends on (data or control) has run.
\* ------------------------------------------------------------------------
Op(kind, i) == <<kind, i>>

OpValuePreds  == Op("value_preds", 0)
OpValidMask   == Op("valid_mask", 0)
OpReturns     == Op("return_and_advantage", 0)
OpKL          == Op("kl_divergence", 0)
OpUpdateBeta  == Op("update_adaptive_kl_beta", 0)
OpObsNorm     == Op("update_obs_norm", 0)
OpRewardNorm  == Op("update_reward_norm", 0)
OpIdentity    == Op("identity", 0)

\* last_train_op after the epoch loop
LastTrainOp(c) == Op("train", c.num_epochs - 1)

\* the graph without one of its control dependencies
NoEpochControlDependencies(i) == {}
NoBetaControlDependencies(c) == {}
NoNormalizerControlDependencies == {}

\* with tf.control_dependencies([last_train_op]) around epoch i;
\* last_train_op is tf.no_op() before the first epoch
EpochControlDependencies(i) ==
  IF i = 0 THEN {} ELSE {Op("train", i - 1)}

\* with tf.control_dependencies([last_train_op]) around the KL recomputation
\* and the beta update
BetaControlDependencies(c) == {LastTrainOp(c)}

\* with tf.control_dependencies([update_adaptive_kl_beta_op]) around both
\* normalizer updates
NormalizerControlDependencies == {OpUpdateBeta}

\* with tf.control_dependencies([update_obs_norm, update_reward_norm]) around
\* the returned identity
IdentityControlDependencies == {OpObsNorm, OpRewardNorm}

Deps(op, c, beta) ==
  CASE op[1] = "value_preds" -> {}
    [] op[1] = "valid_mask" -> {}
    [] op[1] = "return_and_advantage" -> {OpValuePreds}
    [] op[1] = "loss" ->
         {OpReturns, OpValidMask} \cup EpochControlDependencies(op[2])
    [] op[1] = "train" -> {Op("loss", op[2])}
    [] op[1] = "kl_divergence" -> BetaControlDependencies(c)
    [] op[1] = "update_adaptive_kl_beta" ->
         BetaControlDependencies(c) \cup (IF beta = None THEN {} ELSE {OpKL})
    [] op[1] = "update_obs_norm" -> NormalizerControlDependencies
    [] op[1] = "update_reward_norm" -> NormalizerControlDependencies
    [] op[1] = "identity" ->
         IdentityControlDependencies \cup {LastTrainOp(c)}

\* the ops the returned train op reaches: only these run
RECURSIVE Ancestors(_, _, _)
Ancestors(S, c, beta) ==
  LET S2 == S \cup UNION {Deps(o, c, beta) : o \in S}
  IN  IF S2 = S THEN S ELSE Ancestors(S2, c, beta)

Fetched(c, beta) == Ancestors({OpIdentity}, c, beta)

Done == {log[k].op : k \in 1..Len(log)}

Ready(op) ==
  /\ status = "running"
  /\ op \notin Done
  /\ Deps(op, cfg, start.beta) \subseteq Done
  /\ op \in start.ops

\* what an op sees of the agent's state when it runs
Seen(op) ==
  [op      |-> op,
   weights |-> weights,
   beta    |-> adaptive_kl_beta,
   obs     |-> observation_normalizer,
   rew     |-> reward_normalizer]

NoTensors ==
  [value_preds   |-> -1,
   valid_mask    |-> <<>>,
   returns       |-> <<>>,
   kl_divergence |-> <<>>,
   kl_penalty_loss |-> <<>>,
   adaptive_kl_loss |-> <<>>,
   beta_update   |-> <<>>]

\* train_from_experience is called on a batch
StartCall ==
  /\ status = "idle"
  /\ calls < MaxCalls
  /\ experience' \in Experiences
  /\ policy_kl' \in StartKLTensors
  /\ status' = "running"
  /\ calls' = calls + 1
  /\ tensors' = NoTensors
  /\ log' = <<>>
  /\ start' = [weights |-> weights, beta |-> adaptive_kl_beta,
               obs |-> observation_normalizer, rew |-> reward_normalizer,
               ops |-> Fetched(cfg, adaptive_kl_beta),
               experience |-> experience',
               written |-> IF tensors.beta_update = <<>> THEN <<>>
                           ELSE <<tensors.beta_update[1].new>>]
  /\ UNCHANGED <<agent_vars, fn_vars>>

\* value_preds = self._policy.apply_value_network(...) at the current weights
ExecValuePreds ==
  /\ Ready(OpValuePreds)
  /\ tensors' = [tensors EXCEPT !.value_preds = weights]
  /\ log' = Append(log, Seen(OpValuePreds))
  /\ UNCHANGED <<agent_vars, fn_vars, status, calls, experience, policy_kl, start>>

\* valid_mask = ppo_utils.make_timestep_mask(next_time_steps)
ExecValidMask ==
  /\ Ready(OpValidMask)
  /\ tensors' = [tensors EXCEPT !.valid_mask = make_timestep_mask(experience)]
  /\ log' = Append(log, Seen(OpValidMask))
  /\ UNCHANGED <<agent_vars, fn_vars, status, calls, experience, policy_kl, start>>

\* returns and advantages computed again after every weight update, from the
\* value network as it is then
ExecReturnAndAdvantageEveryEpoch ==
  /\ status = "running"
  /\ OpReturns \in start.ops
  /\ Deps(OpReturns, cfg, start.beta) \subseteq Done
  /\ \/ OpReturns \notin Done
     \/ log[Len(log)].op[1] = "train"
  /\ tensors' = [tensors EXCEPT !.returns =
                   <<[value_preds |-> weights,
                      reward_norm |-> reward_normalizer]>>]
  /\ log' = Append(log, Seen(OpReturns))
  /\ UNCHANGED <<agent_vars, fn_vars, status, calls, experience, policy_kl, start>>

\* compute_return_and_advantage: the rewards are normalized with the reward
\* normalizer's statistics as they are when the op runs
ExecReturnAndAdvantage ==
  /\ Ready(OpReturns)
  /\ tensors' = [tensors EXCEPT !.returns =
                   <<[value_preds |-> tensors.value_preds,
                      reward_norm |-> reward_normalizer]>>]
  /\ log' = Append(log, Seen(OpReturns))
  /\ UNCHANGED <<agent_vars, fn_vars, status, calls, experience, policy_kl, start>>

\* the losses of epoch i with the beta update made part of every epoch
ExecLossUpdatingBeta(i) ==
  /\ Ready(Op("loss", i))
  /\ tensors' = [tensors EXCEPT
       !.kl_penalty_loss =
          <<kl_penalty_loss(policy_kl, tensors.valid_mask,
                            adaptive_kl_beta, cfg)>>,
       !.adaptive_kl_loss =
          <<adaptive_kl_loss(TensorMul(policy_kl, tensors.valid_mask),
                             adaptive_kl_beta)>>]
  /\ adaptive_kl_beta' =
       update_adaptive_kl_beta(adaptive_kl_beta, policy_kl, cfg).beta
  /\ log' = Append(log, Seen(Op("loss", i)))
  /\ UNCHANGED <<cfg, weights, reward_normalizer, observation_normalizer,
                 fn_vars, status, calls, experience, policy_kl, start>>

\* build_train_op, the losses of epoch i at the current weights
ExecLoss(i) ==
  /\ Ready(Op("loss", i))
  /\ tensors' = [tensors EXCEPT
       !.kl_penalty_loss =
          <<kl_penalty_loss(policy_kl, tensors.valid_mask,
                            adaptive_kl_beta, cfg)>>,
       !.adaptive_kl_loss =
          <<adaptive_kl_loss(TensorMul(policy_kl, tensors.valid_mask),
                             adaptive_kl_beta)>>]
  /\ log' = Append(log, Seen(Op("loss", i)))
  /\ UNCHANGED <<agent_vars, fn_vars, status, calls, experience, policy_kl, start>>

\* build_train_op, the optimizer step of epoch i: new weights, and with them a
\* new current policy
ExecTrain(i) ==
  /\ Ready(Op("train", i))
  /\ weights' = weights + 1
  /\ policy_kl' \in KLTensors
  /\ log' = Append(log, Seen(Op("train", i)))
  /\ UNCHANGED <<cfg, adaptive_kl_beta, reward_normalizer,
                 observation_normalizer, fn_vars, status, calls, experience,
                 tensors, start>>

\* the failure undone: the weights put back to those of the start of the call
FailCheckNumericsRollingBack(i) ==
  /\ status = "running"
  /\ Op("loss", i) \in Done
  /\ Op("loss", i + 1) \notin Done
  /\ OpKL \notin Done
  /\ OpUpdateBeta \notin Done
  /\ status' = "failed"
  /\ weights' = start.weights
  /\ UNCHANGED <<cfg, adaptive_kl_beta, reward_normalizer,
                 observation_normalizer, fn_vars, calls, experience, policy_kl,
                 tensors, log, start>>

\* a tf.check_numerics of epoch i raises (one of the agent's on a loss, or
\* the one create_train_op puts on total_loss): the run of the graph ends
\* with the error.  The train op of the epoch never completes, so nothing
\* that depends on it has run; the optimizer step of the epoch itself does
\* not wait for the checks and may or may not have been applied.
FailCheckNumerics(i) ==
  /\ status = "running"
  /\ Op("loss", i) \in Done
  /\ Op("loss", i + 1) \notin Done
  /\ OpKL \notin Done
  /\ OpUpdateBeta \notin Done
  /\ status' = "failed"
  /\ weights' = weights
  /\ UNCHANGED <<cfg, adaptive_kl_beta, reward_normalizer,
                 observation_normalizer, fn_vars, calls, experience, policy_kl,
                 tensors, log, start>>

\* kl_divergence = self._kl_divergence(...) after the epochs
ExecKLDivergence ==
  /\ Ready(OpKL)
  /\ tensors' = [tensors EXCEPT !.kl_divergence = policy_kl]
  /\ log' = Append(log, Seen(OpKL))
  /\ UNCHANGED <<agent_vars, fn_vars, status, calls, experience, policy_kl, start>>

\* update_adaptive_kl_beta_op: tf.no_op() without a beta variable, else the
\* assign, or the failure of the exclusive case
ExecUpdateAdaptiveKLBeta ==
  /\ Ready(OpUpdateBeta)
  /\ LET u == update_adaptive_kl_beta(adaptive_kl_beta,
                                      tensors.kl_divergence, cfg)
     IN  /\ adaptive_kl_beta' = u.beta
         /\ status' = IF u.ok THEN status ELSE "failed"
         /\ tensors' = [tensors EXCEPT !.beta_update =
              IF adaptive_kl_beta = None \/ ~u.ok THEN <<>>
              ELSE <<[mean_kl |-> u.mean_kl, old |-> adaptive_kl_beta,
                      new |-> u.beta]>>]
  /\ log' = Append(log, Seen(OpUpdateBeta))
  /\ UNCHANGED <<cfg, weights, reward_normalizer, observation_normalizer,
                 fn_vars, calls, experience, policy_kl, start>>

\* self._observation_normalizer.update(...) or tf.no_op()
ExecUpdateObsNorm ==
  /\ Ready(OpObsNorm)
  /\ observation_normalizer' =
       IF observation_normalizer = NoNormalizer THEN NoNormalizer
       ELSE NormalizerUpdate(observation_normalizer, TimeLen)
  /\ log' = Append(log, Seen(OpObsNorm))
  /\ UNCHANGED <<cfg, weights, adaptive_kl_beta, reward_normalizer, fn_vars,
                 status, calls, experience, policy_kl, tensors, start>>

\* self._reward_normalizer.update(...) or tf.no_op()
ExecUpdateRewardNorm ==
  /\ Ready(OpRewardNorm)
  /\ reward_normalizer' =
       IF reward_normalizer = NoNormalizer THEN NoNormalizer
       ELSE NormalizerUpdate(reward_normalizer, TimeLen)
  /\ log' = Append(log, Seen(OpRewardNorm))
  /\ UNCHANGED <<cfg, weights, adaptive_kl_beta, observation_normalizer,
                 fn_vars, status, calls, experience, policy_kl, tensors, start>>

\* last_train_op = tf.identity(last_train_op): the call's completion signal
ExecIdentity ==
  /\ Ready(OpIdentity)
  /\ status' = "idle"
  /\ log' = Append(log, Seen(OpIdentity))
  /\ UNCHANGED <<agent_vars, fn_vars, calls, experience, policy_kl, tensors, start>>

Init ==
  /\ cfg \in Configs
  /\ weights = 0
  /\ adaptive_kl_beta = InitAdaptiveKLBeta(cfg.initial_adaptive_kl_beta)
  /\ reward_normalizer = InitNormalizer(cfg.normalize_rewards)
  /\ observation_normalizer = InitNormalizer(cfg.normalize_observations)
  /\ status = "idle"
  /\ calls = 0
  /\ experience = <<>>
  /\ policy_kl = ZeroKL
  /\ tensors = NoTensors
  /\ log = <<>>
  /\ start = [weights |-> 0, beta |-> adaptive_kl_beta,
              obs |-> observation_normalizer, rew |-> reward_normalizer,
              ops |-> {}, experience |-> <<>>, written |-> <<>>]
  /\ fn_in = <<>>
  /\ fn_out = <<>>

Next ==
  \/ StartCall
  \/ ExecValuePreds
  \/ ExecValidMask
  \/ ExecReturnAndAdvantage
  \/ \E i \in 0..(MaxEpochs - 1) : ExecLoss(i)
  \/ \E i \in 0..(MaxEpochs - 1) : ExecTrain(i)
  \/ \E i \in 0..(MaxEpochs - 1) : FailCheckNumerics(i)
  \/ ExecKLDivergence
  \/ ExecUpdateAdaptiveKLBeta
  \/ ExecUpdateObsNorm
  \/ ExecUpdateRewardNorm
  \/ ExecIdentity

Spec == Init /\ [][Next]_vars

\* ------------------------------------------------------------------------
\* Direct calls of update_adaptive_kl_beta on given arguments
\* ------------------------------------------------------------------------
ControllerBetas ==
  {QOne, Q(3, 2), Floor, QMul(Q(1, 10), Floor), QMul(Q(6, 5), Floor)}

\* mean KL values around the default band [0.007, 0.013], both bounds included
ControllerKLVals ==
  {QZero, Q(3, 1000), Q(7, 1000), Q(1, 100), Q(13, 1000), Q(2, 100)}

ControllerInputs ==
  [beta                  : ControllerBetas,
   kl_divergence         : {KLTensor(a, a) : a \in ControllerKLVals}
                             \cup {KLTensor(Q(3, 100), Q(1, 100))},
   adaptive_kl_target    : {Q(1, 100), QZero},
   adaptive_kl_tolerance : {Q(3, 10), QZero, Q(-1, 2)}]

IdleCall ==
  /\ weights = 0
  /\ adaptive_kl_beta = None
  /\ reward_normalizer = NoNormalizer
  /\ observation_normalizer = NoNormalizer
  /\ status = "idle"
  /\ calls = 0
  /\ experience = <<>>
  /\ policy_kl = ZeroKL
  /\ tensors = NoTensors
  /\ log = <<>>
  /\ start = [weights |-> 0, beta |-> None,
              obs |-> NoNormalizer, rew |-> NoNormalizer, ops |-> {},
              written |-> <<>>]

InitController ==
  /\ cfg = <<>>
  /\ IdleCall
  /\ fn_in \in ControllerInputs
  /\ fn_out = <<>>

CallUpdateAdaptiveKLBeta ==
  /\ fn_out = <<>>
  /\ fn_out' = <<update_adaptive_kl_beta(fn_in.beta, fn_in.kl_divergence, fn_in)>>
  /\ UNCHANGED <<agent_vars, call_vars, fn_in>>

NextController == CallUpdateAdaptiveKLBeta

SpecController == InitController /\ [][NextController]_vars

\* ------------------------------------------------------------------------
\* Direct calls of compute_returns and compute_advantages on one batch row
\* ------------------------------------------------------------------------
MaxLen == 3    \* longest batch row given to the estimator

RewardVals   == {Q(1, 1), Q(2, 1)}
DiscountVals == {QZero, Q(1, 2), QOne}
ValueVals    == {QZero, QOne}

\* value predictions of L + 1 steps: one value on the odd steps, one on the
\* even steps and one for the trailing bootstrap step
ValuePredictions(L) ==
  {[t \in 1..(L + 1) |-> IF t = L + 1 THEN b ELSE IF t % 2 = 1 THEN a ELSE c] :
     a \in ValueVals, b \in ValueVals, c \in ValueVals}

EstimatorInputsOfLen(L) ==
  {a \in [rewards     : [1..L -> RewardVals],
          discounts   : [1..L -> DiscountVals],
          value_preds : ValuePredictions(L),
          use_gae     : BOOLEAN,
          lambda      : {QOne, Q(1, 2)}] :
     a.use_gae \/ a.lambda = QOne}

EstimatorInputs == UNION {EstimatorInputsOfLen(L) : L \in 1..MaxLen}

InitEstimator ==
  /\ cfg = <<>>
  /\ IdleCall
  /\ fn_in \in EstimatorInputs
  /\ fn_out = <<>>

CallComputeReturns ==
  /\ fn_out = <<>>
  /\ fn_out' = <<compute_returns(fn_in.rewards, fn_in.discounts)>>
  /\ UNCHANGED <<agent_vars, call_vars, fn_in>>

CallComputeAdvantages ==
  /\ Len(fn_out) = 1
  /\ fn_out[1].ok
  /\ fn_out' = Append(fn_out,
       compute_advantages(fn_in.rewards, fn_out[1].val, fn_in.discounts,
                          fn_in.value_preds, fn_in.use_gae, fn_in.lambda))
  /\ UNCHANGED <<agent_vars, call_vars, fn_in>>

NextEstimator ==
  \/ CallComputeReturns
  \/ CallComputeAdvantages

SpecEstimator == InitEstimator /\ [][NextEstimator]_vars

\* ------------------------------------------------------------------------
\* compute_return_and_advantage called directly, with either setting of
\* use_td_lambda_return
\* ------------------------------------------------------------------------
\* the discounts are the environment's times a discount factor below 1, and
\* 0 at the end of an episode
ReturnAndAdvantageInputs ==
  {a \in EstimatorInputs : \A t \in 1..Len(a.discounts) : a.discounts[t] # QOne}

InitReturnAndAdvantage ==
  /\ cfg = <<>>
  /\ IdleCall
  /\ fn_in \in ReturnAndAdvantageInputs
  /\ fn_out = <<>>

CallComputeReturnAndAdvantage ==
  /\ fn_out = <<>>
  /\ \E use_td_lambda_return \in BOOLEAN :
       fn_out' = <<[use_td_lambda_return |-> use_td_lambda_return,
                    out |-> compute_return_and_advantage(
                              fn_in.rewards, fn_in.discounts, fn_in.value_preds,
                              fn_in.use_gae, use_td_lambda_return,
                              fn_in.lambda)]>>
  /\ UNCHANGED <<agent_vars, call_vars, fn_in>>

NextReturnAndAdvantage == CallComputeReturnAndAdvantage

SpecReturnAndAdvantage ==
  InitReturnAndAdvantage /\ [][NextReturnAndAdvantage]_vars

\* ------------------------------------------------------------------------
\* compute_returns and compute_advantages called directly with tensors whose
\* time lengths are chosen independently
\* ------------------------------------------------------------------------
ShapeInputs ==
  {[rewards     |-> [t \in 1..r |-> QOne],
    returns     |-> [t \in 1..g |-> Q(t, 1)],
    discounts   |-> [t \in 1..d |-> Q(1, 2)],
    value_preds |-> [t \in 1..v |-> Q(t, 1)],
    use_gae     |-> use_gae,
    lambda      |-> QOne] :
     r \in 1..MaxLen, g \in 1..MaxLen, d \in 1..MaxLen,
     v \in 2..(MaxLen + 1), use_gae \in BOOLEAN}

InitShapes ==
  /\ cfg = <<>>
  /\ IdleCall
  /\ fn_in \in ShapeInputs
  /\ fn_out = <<>>

CallComputeReturnsAnyShape ==
  /\ fn_out = <<>>
  /\ fn_out' = <<compute_returns(fn_in.rewards, fn_in.discounts)>>
  /\ UNCHANGED <<agent_vars, call_vars, fn_in>>

CallComputeAdvantagesAnyShape ==
  /\ Len(fn_out) = 1
  /\ fn_out' = Append(fn_out,
       compute_advantages_any_shape(fn_in.rewards, fn_in.returns,
                                    fn_in.discounts, fn_in.value_preds,
                                    fn_in.use_gae, fn_in.lambda))
  /\ UNCHANGED <<agent_vars, call_vars, fn_in>>

NextShapes ==
  \/ CallComputeReturnsAnyShape
  \/ CallComputeAdvantagesAnyShape

SpecShapes == InitShapes /\ [][NextShapes]_vars

\* ------------------------------------------------------------------------
\* One training step seen through tf.check_numerics.  A float32 tensor is
\* held as the class of its worst element: "finite", "posinf", "neginf" or
\* "nan".  The sampled log-probabilities, the advantages and the mask are
\* finite; all advantages have one sign.
\* ------------------------------------------------------------------------
NumClasses == {"finite", "posinf", "neginf", "nan"}

\* tf.clip_by_value on a class: an infinity is brought to a bound
ClipClass(x) == IF x = "nan" THEN "nan" ELSE "finite"

\* tf.exp(x - finite): exp(-inf) is 0
ExpClass(x) == IF x = "neginf" THEN "finite" ELSE x

NegClass(x) ==
  IF x = "posinf" THEN "neginf" ELSE IF x = "neginf" THEN "posinf" ELSE x

\* the class of a sum of tensors of the classes in S
SumClass(S) ==
  IF "nan" \in S \/ {"posinf", "neginf"} \subseteq S THEN "nan"
  ELSE IF "posinf" \in S THEN "posinf"
  ELSE IF "neginf" \in S THEN "neginf"
  ELSE "finite"

\* importance_ratio * advantages, the ratio being finite, +inf or nan
ObjectiveClass(ratio, advantage_positive) ==
  IF ratio = "posinf" /\ ~advantage_positive THEN "neginf" ELSE ratio

\* tf.minimum(unclipped, clipped) with clipped finite
MinWithFiniteClass(x) == IF x = "posinf" THEN "finite" ELSE x

\* the classes of the tensors of policy_gradient_loss before each check
policy_gradient_numerics(n) ==
  LET log_prob ==
        IF n.log_prob_clipping THEN ClipClass(n.raw_action_log_prob)
        ELSE n.raw_action_log_prob
      ratio == ExpClass(log_prob)
      ratio_clipped == ClipClass(ratio)
      objective == ObjectiveClass(ratio, n.advantage_positive)
      objective_min ==
        IF ratio_clipped = "nan" THEN "nan"
        ELSE MinWithFiniteClass(objective)
  IN  [action_log_prob          |-> log_prob,
       importance_ratio         |-> ratio,
       importance_ratio_clipped |-> ratio_clipped,
       policy_gradient_loss     |->
         NegClass(IF n.importance_ratio_clipping
                  THEN objective_min ELSE objective)]

\* the tf.check_numerics ops the agent puts in the graph when
\* check_numerics is set, each with the class of the tensor it wraps.  The
\* KL penalty has none.
AgentChecks(n, pg) ==
  IF ~n.check_numerics THEN {}
  ELSE {<<"action_log_prob", pg.action_log_prob>>,
        <<"importance_ratio", pg.importance_ratio>>,
        <<"policy_gradient_loss", pg.policy_gradient_loss>>,
        <<"value_estimation_loss", n.value_estimation_loss>>,
        <<"total_l2_loss", n.l2_regularization_loss>>,
        <<"entropy_reg_loss", n.entropy_regularization_loss>>}
       \cup (IF n.importance_ratio_clipping
             THEN {<<"importance_ratio_clipped", pg.importance_ratio_clipped>>}
             ELSE {})

\* tf.contrib.training.create_train_op is called without a check_numerics
\* argument and wraps total_loss in a check of its own when that argument
\* defaults to True; the record says which default the library has
CreateTrainOpChecks(n, total) ==
  IF n.create_train_op_check_numerics THEN {<<"LossTensor", total>>} ELSE {}

\* the checks of one training step
AllChecks(n, pg, total) == AgentChecks(n, pg) \cup CreateTrainOpChecks(n, total)

\* running the train op of one epoch: every check is an ancestor of the
\* train op, the step fails when any of them sees a NaN or an infinity
train_step_numerics(n) ==
  LET pg    == policy_gradient_numerics(n)
      total == SumClass({pg.policy_gradient_loss, n.value_estimation_loss,
                         n.l2_regularization_loss,
                         n.entropy_regularization_loss, n.kl_penalty_loss})
  IN  [action_log_prob      |-> pg.action_log_prob,
       importance_ratio     |-> pg.importance_ratio,
       policy_gradient_loss |-> pg.policy_gradient_loss,
       total_loss           |-> total,
       failed               |->
         {ck[1] : ck \in {k \in AllChecks(n, pg, total) : k[2] # "finite"}}]

NumericsInputs ==
  [check_numerics                 : BOOLEAN,
   log_prob_clipping              : BOOLEAN,
   importance_ratio_clipping      : BOOLEAN,
   advantage_positive             : BOOLEAN,
   create_train_op_check_numerics : BOOLEAN,
   raw_action_log_prob            : NumClasses,
   value_estimation_loss          : {"finite", "nan"},
   l2_regularization_loss         : {"finite", "nan"},
   entropy_regularization_loss    : {"finite", "nan"},
   kl_penalty_loss                : {"finite", "posinf", "nan"}]

InitNumerics ==
  /\ cfg = <<>>
  /\ IdleCall
  /\ fn_in \in NumericsInputs
  /\ fn_out = <<>>

RunTrainStep ==
  /\ fn_out = <<>>
  /\ fn_out' = <<train_step_numerics(fn_in)>>
  /\ UNCHANGED <<agent_vars, call_vars, fn_in>>

NextNumerics == RunTrainStep

SpecNumerics == InitNumerics /\ [][NextNumerics]_vars

\* ------------------------------------------------------------------------
\* Two training calls on one agent, each run by its own thread.  Of a call
\* only the beta update is followed: the read of the variable for the
\* product and the tf.assign are two ops, and nothing orders the ops of one
\* run of the graph against those of another.
\* ------------------------------------------------------------------------
Callers == {1, 2}

ConcurrentConfig ==
  [adaptive_kl_target |-> Q(1, 100), adaptive_kl_tolerance |-> Q(3, 10)]

InitConcurrent ==
  /\ cfg = ConcurrentConfig
  /\ weights = 0
  /\ \E b \in BetaInits : adaptive_kl_beta = InitAdaptiveKLBeta(b)
  /\ reward_normalizer = NoNormalizer
  /\ observation_normalizer = NoNormalizer
  /\ status = "idle"
  /\ calls = 0
  /\ experience = <<>>
  /\ policy_kl = ZeroKL
  /\ tensors = NoTensors
  /\ log = <<>>
  /\ start = [weights |-> 0, beta |-> adaptive_kl_beta,
              obs |-> NoNormalizer, rew |-> NoNormalizer, ops |-> {},
              written |-> <<>>]
  /\ fn_in \in [Callers -> KLTensors]
  /\ fn_out = [pc     |-> [p \in Callers |-> "epochs"],
               read   |-> [p \in Callers |-> None],
               events |-> <<>>]

\* self._adaptive_kl_beta * adaptive_kl_update_factor reads the variable
ReadBeta(p) ==
  /\ fn_out.pc[p] = "epochs"
  /\ adaptive_kl_beta # None
  /\ fn_out' = [fn_out EXCEPT !.pc[p] = "read",
                              !.read[p] = adaptive_kl_beta,
                              !.events = Append(@, <<"read", p>>)]
  /\ UNCHANGED <<agent_vars, call_vars, fn_in>>

\* the update made in one piece: the new value computed from the variable as
\* it is when it is assigned
AssignBetaAtomically(p) ==
  /\ fn_out.pc[p] = "read"
  /\ adaptive_kl_beta' =
       new_adaptive_kl_beta(adaptive_kl_beta, QMean(fn_in[p]), cfg)
  /\ fn_out' = [fn_out EXCEPT !.pc[p] = "done",
                              !.events = Append(@, <<"assign", p>>)]
  /\ UNCHANGED <<cfg, weights, reward_normalizer, observation_normalizer,
                 call_vars, fn_in>>

\* tf.assign(self._adaptive_kl_beta, new_adaptive_kl_beta), the new value
\* computed from what was read
AssignBeta(p) ==
  /\ fn_out.pc[p] = "read"
  /\ adaptive_kl_beta' =
       new_adaptive_kl_beta(fn_out.read[p], QMean(fn_in[p]), cfg)
  /\ fn_out' = [fn_out EXCEPT !.pc[p] = "done",
                              !.events = Append(@, <<"assign", p>>)]
  /\ UNCHANGED <<cfg, weights, reward_normalizer, observation_normalizer,
                 call_vars, fn_in>>

\* without a beta variable the update op is tf.no_op()
NoOpBeta(p) ==
  /\ fn_out.pc[p] = "epochs"
  /\ adaptive_kl_beta = None
  /\ fn_out' = [fn_out EXCEPT !.pc[p] = "done"]
  /\ UNCHANGED <<agent_vars, call_vars, fn_in>>

NextConcurrent ==
  \/ \E p \in Callers : ReadBeta(p)
  \/ \E p \in Callers : AssignBeta(p)
  \/ \E p \in Callers : NoOpBeta(p)

SpecConcurrent == InitConcurrent /\ [][NextConcurrent]_vars

\* ------------------------------------------------------------------------
\* policy_gradient_loss called directly
\* ------------------------------------------------------------------------
LossLen == 2    \* timesteps of a batch row given to a loss

ActionProbVals == {Q(1, 20), Q(1, 4), Q(13, 20), Q(3, 1)}
SampleActionProbVals == {Q(1, 2)}
AdvantageVals == {Q(-1, 1), QOne}
MaskVals == {QZero, QOne}

PolicyGradientInputs ==
  [action_probs              : [1..LossLen -> ActionProbVals],
   sample_action_probs       : [1..LossLen -> SampleActionProbVals],
   advantages                : [1..LossLen -> AdvantageVals],
   valid_mask                : [1..LossLen -> MaskVals],
   importance_ratio_clipping : {QZero, Q(1, 5)},
   exp_log_prob_clipping     : {QOne, Q(2, 1)}]

InitPolicyGradient ==
  /\ cfg = <<>>
  /\ IdleCall
  /\ fn_in \in PolicyGradientInputs
  /\ fn_out = <<>>

CallPolicyGradientLoss ==
  /\ fn_out = <<>>
  /\ fn_out' = <<policy_gradient_loss(fn_in.action_probs,
                                      fn_in.sample_action_probs,
                                      fn_in.advantages, fn_in.valid_mask, fn_in)>>
  /\ UNCHANGED <<agent_vars, call_vars, fn_in>>

NextPolicyGradient == CallPolicyGradientLoss

SpecPolicyGradient == InitPolicyGradient /\ [][NextPolicyGradient]_vars

\* ------------------------------------------------------------------------
\* build_train_op and the loss summary, with weights that the optimizer
\* leaves unchanged, so that every epoch of a call computes the same losses
\* ------------------------------------------------------------------------
\* what one timestep of the batch gives
Timesteps ==
  {[action_prob |-> Q(13, 20), sample_action_prob |-> Q(1, 2),
    advantage |-> QOne, return |-> QOne, value_pred |-> QZero,
    entropy |-> QOne, kl |-> Q(1, 100)],
   [action_prob |-> Q(1, 4), sample_action_prob |-> Q(1, 2),
    advantage |-> Q(-1, 1), return |-> QZero, value_pred |-> Q(2, 1),
    entropy |-> Q(-1, 2), kl |-> Q(3, 100)],
   [action_prob |-> Q(1, 2), sample_action_prob |-> Q(1, 2),
    advantage |-> QOne, return |-> QOne, value_pred |-> QOne,
    entropy |-> QZero, kl |-> QZero]}

BatchOf(steps) ==
  [action_probs        |-> [t \in 1..LossLen |-> steps[t].action_prob],
   sample_action_probs |-> [t \in 1..LossLen |-> steps[t].sample_action_prob],
   advantages          |-> [t \in 1..LossLen |-> steps[t].advantage],
   returns             |-> [t \in 1..LossLen |-> steps[t].return],
   value_preds         |-> [t \in 1..LossLen |-> steps[t].value_pred],
   entropy             |-> [t \in 1..LossLen |-> steps[t].entropy],
   kl                  |-> [t \in 1..LossLen |-> steps[t].kl],
   policy_kernel_sq    |-> QOne,
   value_kernel_sq     |-> Q(2, 1)]

\* entropy_regularization and policy_l2_reg: one zero and the other
\* negative, or both positive
RegularizationSettings ==
  {<<Q(-1, 100), QZero>>, <<QZero, Q(-1, 10)>>, <<Q(1, 100), Q(1, 10)>>}

LossConfigs ==
  {[importance_ratio_clipping |-> Q(1, 5),
    exp_log_prob_clipping     |-> QOne,
    value_pred_loss_coef      |-> Q(1, 2),
    entropy_regularization    |-> r[1],
    policy_l2_reg             |-> r[2],
    value_function_l2_reg     |-> QZero,
    kl_cutoff_factor          |-> factor,
    kl_cutoff_coef            |-> coef,
    adaptive_kl_target        |-> target,
    beta                      |-> beta] :
     r \in RegularizationSettings,
     factor \in {QZero, Q(2, 1)},
     coef \in {QZero, Q(1000, 1)},
     target \in {Q(-1, 100), Q(1, 100)},
     beta \in {None, QOne}}

InitLosses ==
  /\ cfg \in LossConfigs
  /\ IdleCall
  /\ \E steps \in [1..LossLen -> Timesteps], valid_mask \in [1..LossLen -> MaskVals] :
       fn_in = [batch |-> BatchOf(steps), valid_mask |-> valid_mask]
  /\ fn_out = <<>>

CallBuildTrainOp ==
  /\ fn_out = <<>>
  /\ fn_out' = <<build_train_op(fn_in.batch, fn_in.valid_mask, cfg.beta, cfg)>>
  /\ UNCHANGED <<agent_vars, call_vars, fn_in>>

\* the summary over num_epochs epochs that all computed the same losses
CallSummaryTotalLoss ==
  /\ Len(fn_out) = 1
  /\ \E num_epochs \in 1..MaxEpochs :
       fn_out' = Append(fn_out,
         [num_epochs |-> num_epochs,
          total_loss |-> summary_total_loss([i \in 1..num_epochs |-> fn_out[1]])])
  /\ UNCHANGED <<agent_vars, call_vars, fn_in>>

NextLosses ==
  \/ CallBuildTrainOp
  \/ CallSummaryTotalLoss

SpecLosses == InitLosses /\ [][NextLosses]_vars

\* ------------------------------------------------------------------------
\* Properties of a training call (Spec)
\* ------------------------------------------------------------------------
Idx(op) == CHOOSE k \in 1..Len(log) : log[k].op = op

RanBefore(a, b) == a \in Done /\ b \in Done /\ Idx(a) < Idx(b)

\* b runs only after a has run
OnlyAfter(b, a) == b \in Done => RanBefore(a, b)

Completed == OpIdentity \in Done

TrainOpsDone == {o \in Done : o[1] = "train"}

\* C1: a call with num_epochs = N requests exactly N weight updates, in epoch
\* order 0..N-1; the losses of epoch i+1 are computed only after the weight
\* update of epoch i has been applied (they see i+1 updates), and the update
\* of an epoch only after that epoch's losses: no two epochs overlap.
C1_EpochsInOrder ==
  /\ \A o \in Done :
       o[1] \in {"loss", "train"} => o[2] \in 0..(cfg.num_epochs - 1)
  /\ \A i \in 0..(MaxEpochs - 1) :
       /\ OnlyAfter(Op("train", i), Op("loss", i))
       /\ OnlyAfter(Op("loss", i + 1), Op("train", i))
  /\ \A k \in 1..Len(log) :
       log[k].op[1] \in {"loss", "train"}
         => log[k].weights = start.weights + log[k].op[2]
  /\ weights = start.weights + Cardinality(TrainOpsDone)
  /\ Completed => Cardinality(TrainOpsDone) = cfg.num_epochs

C1_Witness ==
  /\ Completed
  /\ cfg.num_epochs >= 2
  /\ weights = start.weights + cfg.num_epochs

\* C2: after the epochs the steps run in this order: the last epoch's weight
\* update, then the KL recomputation and the beta update, then the two
\* normalizer updates, then the completion signal; no normalizer is updated
\* before the beta update of the same call.
C2_PostEpochOrder ==
  /\ OnlyAfter(OpKL, LastTrainOp(cfg))
  /\ OnlyAfter(OpUpdateBeta, LastTrainOp(cfg))
  /\ start.beta # None => OnlyAfter(OpUpdateBeta, OpKL)
  /\ OnlyAfter(OpObsNorm, OpUpdateBeta)
  /\ OnlyAfter(OpRewardNorm, OpUpdateBeta)
  /\ OnlyAfter(OpIdentity, OpObsNorm)
  /\ OnlyAfter(OpIdentity, OpRewardNorm)
  /\ OpUpdateBeta \notin Done =>
       /\ observation_normalizer = start.obs
       /\ reward_normalizer = start.rew

C2_Witness ==
  /\ Completed
  /\ start.beta # None
  /\ adaptive_kl_beta # start.beta
  /\ observation_normalizer # start.obs
  /\ reward_normalizer # start.rew

\* the ops that normalize observations: the value network, the policy of
\* every epoch and of the final KL recomputation
ObsReadKinds == {"value_preds", "loss", "kl_divergence"}

\* C3: every normalize read of a call sees the statistics that held when the
\* call started; the call's own update is applied once per enabled normalizer
\* (one batch is folded in) and only after all those reads.
C3_NormalizerSnapshot ==
  /\ \A k \in 1..Len(log) :
       /\ log[k].op[1] \in ObsReadKinds => log[k].obs = start.obs
       /\ log[k].op = OpReturns => log[k].rew = start.rew
  /\ OpObsNorm \in Done =>
       \A o \in start.ops : o[1] \in ObsReadKinds => RanBefore(o, OpObsNorm)
  /\ OpRewardNorm \in Done => RanBefore(OpReturns, OpRewardNorm)
  /\ observation_normalizer =
       IF OpObsNorm \in Done /\ start.obs # NoNormalizer
       THEN [count |-> start.obs.count + TimeLen] ELSE start.obs
  /\ reward_normalizer =
       IF OpRewardNorm \in Done /\ start.rew # NoNormalizer
       THEN [count |-> start.rew.count + TimeLen] ELSE start.rew

C3_Witness ==
  /\ Completed
  /\ calls = 2
  /\ start.rew # NoNormalizer /\ start.rew.count > 0
  /\ start.obs # NoNormalizer /\ start.obs.count > 0
  /\ reward_normalizer.count = start.rew.count + TimeLen
  /\ observation_normalizer.count = start.obs.count + TimeLen

\* C4: with the controller enabled, beta is written once per call, after the
\* last epoch and never inside an epoch: every epoch's losses see the beta of
\* the start of the call, and a call starts from the beta the call before it
\* wrote.
C4_BetaOncePerCall ==
  /\ \A k \in 1..Len(log) :
       log[k].op[1] \in {"loss", "train"} => log[k].beta = start.beta
  /\ OpUpdateBeta \notin Done =>
       /\ adaptive_kl_beta = start.beta
       /\ tensors.beta_update = <<>>
  /\ (OpUpdateBeta \in Done /\ start.beta # None /\ status # "failed") =>
       /\ Len(tensors.beta_update) = 1
       /\ tensors.beta_update[1].old = start.beta
       /\ adaptive_kl_beta = tensors.beta_update[1].new
       /\ RanBefore(LastTrainOp(cfg), OpUpdateBeta)
  /\ start.written # <<>> => start.beta = start.written[1]

C4_Witness ==
  /\ Completed
  /\ cfg.num_epochs >= 2
  /\ start.written # <<>>
  /\ start.beta # InitAdaptiveKLBeta(cfg.initial_adaptive_kl_beta)
  /\ adaptive_kl_beta # start.beta

\* C6: with the controller enabled, beta is at least the floor 10e-16 after
\* every update, whatever KL the calls observe.
C6_BetaAtLeastFloor ==
  (adaptive_kl_beta # None /\ (calls > 1 \/ OpUpdateBeta \in Done))
    => QLeq(Floor, adaptive_kl_beta)

\* an update from a beta at the floor that the floor caught
C6_Witness ==
  /\ tensors.beta_update # <<>>
  /\ QLeq(Floor, tensors.beta_update[1].old)
  /\ QLess(QMul(tensors.beta_update[1].old, Q(2, 3)), Floor)
  /\ mean_kl_below_bound(tensors.beta_update[1].mean_kl, cfg)
  /\ adaptive_kl_beta = Floor

\* C8: the mean KL that drives the beta update is the mean of the masked KL,
\* mean(mask * KL), as the KL penalty loss computes it at the same weights.
C8_UpdateUsesMaskedMean ==
  tensors.beta_update # <<>> =>
    QEq(tensors.beta_update[1].mean_kl,
        QMean(TensorMul(tensors.kl_divergence, tensors.valid_mask)))

\* ------------------------------------------------------------------------
\* Properties of update_adaptive_kl_beta (SpecController)
\* ------------------------------------------------------------------------
InMeanKL == QMean(fn_in.kl_divergence)
InLower  ==
  QMul(fn_in.adaptive_kl_target, QSub(QOne, fn_in.adaptive_kl_tolerance))
InUpper  ==
  QMul(fn_in.adaptive_kl_target, QAdd(QOne, fn_in.adaptive_kl_tolerance))

DefaultBand ==
  /\ fn_in.adaptive_kl_target = Q(1, 100)
  /\ fn_in.adaptive_kl_tolerance = Q(3, 10)

\* C5, with the floor applied in every branch: the update maps
\* (beta, mean_kl) to max(beta/1.5, floor) below target*(1-tolerance), to
\* max(beta*1.5, floor) above target*(1+tolerance), and to max(beta, floor)
\* otherwise (mean_kl on either bound included), which is beta itself for
\* beta >= floor.  With target 0.01, tolerance 0.3, beta 1.0: 0.02 gives 1.5,
\* 0.003 gives 1/1.5, 0.01 gives 1.0.
C5_BetaUpdateMap ==
  (fn_out # <<>> /\ fn_out[1].ok) =>
    /\ QLess(InMeanKL, InLower) =>
         QEq(fn_out[1].beta, QMax(QDiv(fn_in.beta, Q(3, 2)), Floor))
    /\ QGreater(InMeanKL, InUpper) =>
         QEq(fn_out[1].beta, QMax(QMul(fn_in.beta, Q(3, 2)), Floor))
    /\ (~QLess(InMeanKL, InLower) /\ ~QGreater(InMeanKL, InUpper)) =>
         /\ QEq(fn_out[1].beta, QMax(fn_in.beta, Floor))
         /\ QLeq(Floor, fn_in.beta) => fn_out[1].beta = fn_in.beta
    /\ (DefaultBand /\ fn_in.beta = QOne) =>
         /\ QEq(InMeanKL, Q(2, 100)) => fn_out[1].beta = Q(3, 2)
         /\ QEq(InMeanKL, Q(3, 1000)) => fn_out[1].beta = Q(2, 3)
         /\ QEq(InMeanKL, Q(1, 100)) => fn_out[1].beta = QOne
         /\ QEq(InMeanKL, Q(7, 1000)) => fn_out[1].beta = QOne
         /\ QEq(InMeanKL, Q(13, 1000)) => fn_out[1].beta = QOne

C5_Witness ==
  /\ fn_out # <<>>
  /\ DefaultBand
  /\ fn_in.beta = QOne
  /\ QEq(InMeanKL, Q(3, 1000))
  /\ fn_out[1].ok
  /\ fn_out[1].beta = Q(2, 3)

\* C5 as stated: max(beta/1.5, floor) below the band, max(beta*1.5, floor)
\* above it, and beta unchanged otherwise, for every beta.
C5_UnchangedInBand ==
  (fn_out # <<>> /\ fn_out[1].ok) =>
    QEq(fn_out[1].beta,
        IF QLess(InMeanKL, InLower)
        THEN QMax(QDiv(fn_in.beta, Q(3, 2)), Floor)
        ELSE IF QGreater(InMeanKL, InUpper)
        THEN QMax(QMul(fn_in.beta, Q(3, 2)), Floor)
        ELSE fn_in.beta)

\* C7: for every mean_kl and every target and tolerance the constructor
\* accepts, the two bound checks are never both true and the exclusive case
\* selects one branch and never fails.
C7_BoundChecksExclusive ==
  fn_out # <<>> =>
    /\ fn_out[1].ok
    /\ ~(QLess(InMeanKL, InLower) /\ QGreater(InMeanKL, InUpper))

\* ------------------------------------------------------------------------
\* Properties of compute_returns and compute_advantages (SpecEstimator)
\* ------------------------------------------------------------------------
InLen == Len(fn_in.rewards)

NoZeroDiscount == \A t \in 1..InLen : fn_in.discounts[t] # QZero

\* discounts[t] * ... * discounts[InLen]
RECURSIVE DiscountProduct(_)
DiscountProduct(t) ==
  IF t > InLen THEN QOne
  ELSE QMul(fn_in.discounts[t], DiscountProduct(t + 1))

\* C9: compute_returns gives R with R[t] = rewards[t] + discounts[t]*R[t+1]
\* and R[T] = 0 past the end, so a zero discount at t makes R[t] = rewards[t];
\* rewards [1,1,1] with discounts [1,1,0] give [3,2,1].
C9_ReturnsRecurrence ==
  fn_out # <<>> =>
    /\ fn_out[1].ok
    /\ Len(fn_out[1].val) = InLen
    /\ \A t \in 1..InLen :
         /\ QEq(fn_out[1].val[t],
                QAdd(fn_in.rewards[t],
                     QMul(fn_in.discounts[t],
                          IF t = InLen THEN QZero ELSE fn_out[1].val[t + 1])))
         /\ fn_in.discounts[t] = QZero => fn_out[1].val[t] = fn_in.rewards[t]
    /\ (/\ fn_in.rewards = <<QOne, QOne, QOne>>
        /\ fn_in.discounts = <<QOne, QOne, QZero>>)
         => fn_out[1].val = <<Q(3, 1), Q(2, 1), QOne>>

C9_Witness ==
  /\ fn_out # <<>>
  /\ fn_in.rewards = <<QOne, QOne, QOne>>
  /\ fn_in.discounts = <<QOne, QOne, QZero>>
  /\ fn_out[1].val = <<Q(3, 1), Q(2, 1), QOne>>

\* C10, with the bootstrap term: with GAE, lambda = 1 and no zero discount, the advantage is
\* returns[t] - value_preds[t] plus the bootstrap value discounted from the end
\* of the row, discounts[t]*...*discounts[T-1]*value_preds[T]; it is
\* returns[t] - value_preds[t] when the trailing bootstrap value is 0.
C10_GaeIsReturnsPlusBootstrap ==
  (Len(fn_out) = 2 /\ fn_in.use_gae /\ fn_in.lambda = QOne /\ NoZeroDiscount) =>
    \A t \in 1..InLen :
      /\ QEq(fn_out[2][t],
             QAdd(QSub(fn_out[1].val[t], fn_in.value_preds[t]),
                  QMul(DiscountProduct(t), fn_in.value_preds[InLen + 1])))
      /\ fn_in.value_preds[InLen + 1] = QZero =>
           QEq(fn_out[2][t], QSub(fn_out[1].val[t], fn_in.value_preds[t]))

C10_Witness ==
  /\ Len(fn_out) = 2
  /\ fn_in.use_gae
  /\ fn_in.lambda = QOne
  /\ NoZeroDiscount
  /\ InLen >= 2
  /\ fn_in.discounts[1] = Q(1, 2)
  /\ fn_in.value_preds[InLen + 1] = QOne
  /\ QEq(fn_out[2][1],
         QAdd(QSub(fn_out[1].val[1], fn_in.value_preds[1]), DiscountProduct(1)))

\* C10 as stated: with GAE, lambda = 1 and no zero discount the advantage
\* equals returns[t] - value_preds[t] at every t, for every value_preds, a
\* non-zero trailing bootstrap value included.
C10_GaeIsReturnsMinusValues ==
  (Len(fn_out) = 2 /\ fn_in.use_gae /\ fn_in.lambda = QOne /\ NoZeroDiscount) =>
    \A t \in 1..InLen :
      QEq(fn_out[2][t], QSub(fn_out[1].val[t], fn_in.value_preds[t]))
\* ------------------------------------------------------------------------
\* Properties of compute_return_and_advantage (SpecReturnAndAdvantage)
\* ------------------------------------------------------------------------
\* C11: with use_td_lambda_return and use_gae both set, the call returns
\* returns[t] = advantage[t] + value_preds[t] for the L timesteps of the
\* advantages only (value_preds without its trailing bootstrap entry), so the
\* returns have the time length L of the advantages.
C11_TdLambdaReturns ==
  (fn_out # <<>> /\ fn_out[1].use_td_lambda_return /\ fn_in.use_gae) =>
    /\ fn_out[1].out.ok
    /\ Len(fn_out[1].out.returns) = InLen
    /\ Len(fn_out[1].out.advantages) = InLen
    /\ \A t \in 1..InLen :
         QEq(fn_out[1].out.returns[t],
             QAdd(fn_out[1].out.advantages[t], fn_in.value_preds[t]))

\* C21: with use_td_lambda_return set and use_gae not, the call raises
\* nothing and returns the Monte Carlo returns of compute_returns and the
\* normalized empirical advantage returns - value_preds: what it returns
\* with use_td_lambda_return unset.
C21_TdLambdaWithoutGaeFallsBack ==
  (fn_out # <<>> /\ fn_out[1].use_td_lambda_return /\ ~fn_in.use_gae) =>
    LET out == fn_out[1].out
        mc  == compute_returns(fn_in.rewards, fn_in.discounts)
        emp == [t \in 1..InLen |-> QSub(mc.val[t], fn_in.value_preds[t])]
    IN  /\ out.ok
        /\ mc.ok
        /\ out.returns = mc.val
        /\ Len(out.advantages) = InLen
        /\ \A t \in 1..InLen : QEq(out.advantages[t], emp[t])
        /\ out.normalized_advantages = normalize_advantages(emp)
        /\ out = compute_return_and_advantage(
                   fn_in.rewards, fn_in.discounts, fn_in.value_preds,
                   fn_in.use_gae, FALSE, fn_in.lambda)

\* three timesteps with a discount above zero and advantages that differ, so
\* the returns accumulate and the normalization has a variance
C21_Witness ==
  /\ fn_out # <<>>
  /\ fn_out[1].use_td_lambda_return
  /\ ~fn_in.use_gae
  /\ InLen = 3
  /\ NoZeroDiscount
  /\ fn_out[1].out.ok
  /\ QGreater(fn_out[1].out.returns[1], fn_in.rewards[1])
  /\ QGreater(fn_out[1].out.normalized_advantages.variance, QZero)

\* ------------------------------------------------------------------------
\* Properties of policy_gradient_loss (SpecPolicyGradient)
\* ------------------------------------------------------------------------
Eps == fn_in.importance_ratio_clipping

\* clip(r, 1 - eps, 1 + eps), by cases
ClipToBand(r) ==
  IF QLess(r, QSub(QOne, Eps)) THEN QSub(QOne, Eps)
  ELSE IF QGreater(r, QAdd(QOne, Eps)) THEN QAdd(QOne, Eps)
  ELSE r

\* min(x, y), by cases
LesserOf(x, y) == IF QLess(y, x) THEN y ELSE x

\* C12: with importance_ratio_clipping = eps > 0 the objective at each
\* timestep is min(ratio*A, clip(ratio, 1-eps, 1+eps)*A) for an advantage A of
\* either sign, so it is at most ratio*A, and the loss is -mean(objective*mask);
\* with A = 1 and eps = 0.2, ratio 1.3 gives 1.2 and ratio 0.5 gives 0.5.
C12_ClippedObjective ==
  (fn_out # <<>> /\ QGreater(Eps, QZero)) =>
    /\ \A t \in 1..LossLen :
         /\ QEq(fn_out[1].objective[t],
                LesserOf(QMul(fn_out[1].importance_ratio[t], fn_in.advantages[t]),
                         QMul(ClipToBand(fn_out[1].importance_ratio[t]),
                              fn_in.advantages[t])))
         /\ QLeq(fn_out[1].objective[t],
                 QMul(fn_out[1].importance_ratio[t], fn_in.advantages[t]))
         /\ (Eps = Q(1, 5) /\ fn_in.advantages[t] = QOne) =>
              /\ QEq(fn_out[1].importance_ratio[t], Q(13, 10))
                   => fn_out[1].objective[t] = Q(6, 5)
              /\ QEq(fn_out[1].importance_ratio[t], Q(1, 2))
                   => fn_out[1].objective[t] = Q(1, 2)
    /\ QEq(fn_out[1].loss,
           QNeg(QMean([t \in 1..LossLen |->
                         QMul(fn_out[1].objective[t], fn_in.valid_mask[t])])))

C12_Witness ==
  /\ fn_out # <<>>
  /\ Eps = Q(1, 5)
  /\ fn_in.advantages[1] = QOne /\ fn_in.advantages[2] = QOne
  /\ fn_in.valid_mask[1] = QOne /\ fn_in.valid_mask[2] = QOne
  /\ QEq(fn_out[1].importance_ratio[1], Q(13, 10))
  /\ QEq(fn_out[1].importance_ratio[2], Q(1, 2))
  /\ fn_out[1].objective[1] = Q(6, 5)
  /\ fn_out[1].objective[2] = Q(1, 2)
  /\ QEq(fn_out[1].loss, Q(-17, 20))

\* C13 as stated: with log_prob_clipping = c > 0 the clip acts on the
\* difference log pi_new(a) - log pi_old(a), so the logarithm of the
\* importance ratio lies in [-c, +c]: the ratio lies in [1/exp(c), exp(c)].
C13_LogRatioWithinClip ==
  (fn_out # <<>> /\ QGreater(fn_in.exp_log_prob_clipping, QOne)) =>
    \A t \in 1..LossLen :
      /\ QLeq(QDiv(QOne, fn_in.exp_log_prob_clipping),
              fn_out[1].importance_ratio[t])
      /\ QLeq(fn_out[1].importance_ratio[t], fn_in.exp_log_prob_clipping)

\* C13, with the clip where the code applies it: with log_prob_clipping =
\* c > 0 the new policy's log-probability is clipped to [-c, +c] and the old
\* log-probability is subtracted afterwards, so the logarithm of the ratio is
\* clip(log pi_new(a), -c, c) - log pi_old(a) and lies within c of
\* -log pi_old(a): ratio * pi_old(a) lies in [1/exp(c), exp(c)].
C13_NewLogProbClipped ==
  (fn_out # <<>> /\ QGreater(fn_in.exp_log_prob_clipping, QOne)) =>
    \A t \in 1..LossLen :
      /\ QLeq(QDiv(QOne, fn_in.exp_log_prob_clipping),
              QMul(fn_out[1].importance_ratio[t], fn_in.sample_action_probs[t]))
      /\ QLeq(QMul(fn_out[1].importance_ratio[t], fn_in.sample_action_probs[t]),
              fn_in.exp_log_prob_clipping)
      /\ QEq(QMul(fn_out[1].importance_ratio[t], fn_in.sample_action_probs[t]),
             IF QLess(fn_in.action_probs[t],
                      QDiv(QOne, fn_in.exp_log_prob_clipping))
             THEN QDiv(QOne, fn_in.exp_log_prob_clipping)
             ELSE IF QGreater(fn_in.action_probs[t], fn_in.exp_log_prob_clipping)
             THEN fn_in.exp_log_prob_clipping
             ELSE fn_in.action_probs[t])

\* a new probability above exp(c) clipped to it, the ratio still above exp(c)
C13_Witness ==
  /\ fn_out # <<>>
  /\ fn_in.exp_log_prob_clipping = Q(2, 1)
  /\ fn_in.action_probs[1] = Q(3, 1)
  /\ fn_in.sample_action_probs[1] = Q(1, 2)
  /\ QEq(fn_out[1].importance_ratio[1], Q(4, 1))

\* ------------------------------------------------------------------------
\* Properties of build_train_op and of the loss summary (SpecLosses)
\* ------------------------------------------------------------------------
AllZeros == \A t \in 1..LossLen : fn_in.valid_mask[t] = QZero
AllOnes  == \A t \in 1..LossLen : fn_in.valid_mask[t] = QOne

\* the terms computed from the batch with no mask at all
UnmaskedPolicyGradientLoss ==
  QMean([t \in 1..LossLen |->
    QNeg(per_timestep_objective(
           importance_ratio(fn_in.batch.action_probs[t],
                            fn_in.batch.sample_action_probs[t], cfg),
           fn_in.batch.advantages[t], cfg))])

UnmaskedValueEstimationLoss ==
  QMul(QMean([t \in 1..LossLen |->
    QMul(QSub(fn_in.batch.returns[t], fn_in.batch.value_preds[t]),
         QSub(fn_in.batch.returns[t], fn_in.batch.value_preds[t]))]),
       cfg.value_pred_loss_coef)

UnmaskedEntropyLoss ==
  IF QGreater(cfg.entropy_regularization, QZero)
  THEN QMul(QMean([t \in 1..LossLen |-> QNeg(fn_in.batch.entropy[t])]),
            cfg.entropy_regularization)
  ELSE QZero

UnmaskedKLPenaltyLoss ==
  QAdd(kl_cutoff_loss(fn_in.batch.kl, cfg),
       adaptive_kl_loss(fn_in.batch.kl, cfg.beta))

\* C14: for every batch and every configuration the constructor accepts, a
\* valid mask of all 0s makes the policy-gradient, value-estimation, entropy
\* and KL penalty terms exactly zero, and a mask of all 1s gives each term the
\* value it has with no mask.
C14_MaskIdempotence ==
  fn_out # <<>> =>
    /\ AllZeros =>
         /\ fn_out[1].policy_gradient_loss = QZero
         /\ fn_out[1].value_estimation_loss = QZero
         /\ fn_out[1].entropy_regularization_loss = QZero
         /\ fn_out[1].kl_penalty_loss = QZero
    /\ AllOnes =>
         /\ QEq(fn_out[1].policy_gradient_loss, UnmaskedPolicyGradientLoss)
         /\ QEq(fn_out[1].value_estimation_loss, UnmaskedValueEstimationLoss)
         /\ QEq(fn_out[1].entropy_regularization_loss, UnmaskedEntropyLoss)
         /\ QEq(fn_out[1].kl_penalty_loss, UnmaskedKLPenaltyLoss)

\* ------------------------------------------------------------------------
\* The KL cutoff term
\* ------------------------------------------------------------------------
MaskedKL == TensorMul(fn_in.batch.kl, fn_in.valid_mask)

\* the cutoff term of the computed KL penalty: the penalty less the adaptive
\* term
CutoffTerm ==
  QSub(fn_out[1].kl_penalty_loss, adaptive_kl_loss(MaskedKL, cfg.beta))

CutoffThreshold == QMul(cfg.kl_cutoff_factor, cfg.adaptive_kl_target)

\* coef * max(mean(mask * KL) - factor * target, 0)^2
CutoffFormula ==
  LET over == QMax(QSub(QMean(MaskedKL), CutoffThreshold), QZero)
  IN  QMul(cfg.kl_cutoff_coef, QMul(over, over))

\* C15 as stated: the cutoff term is coef * max(mean(mask*KL) - factor*target,
\* 0)^2 for every coefficient, factor and target, and only a coefficient of 0
\* switches it off.
C15_CutoffFormulaAlways ==
  Len(fn_out) >= 1 =>
    /\ QEq(CutoffTerm, CutoffFormula)
    /\ (/\ QGreater(cfg.kl_cutoff_coef, QZero)
        /\ QGreater(QMean(MaskedKL), CutoffThreshold))
         => QGreater(CutoffTerm, QZero)

\* C15, amended: a factor that is not positive switches the term off whatever
\* the KL; for a positive factor the term is coef * max(mean(mask*KL) -
\* factor*target, 0)^2, which is zero at or below factor*target, positive
\* above it when the coefficient is positive, and zero when the coefficient
\* is 0.
C15_CutoffFormulaForPositiveFactor ==
  Len(fn_out) >= 1 =>
    IF QLeq(cfg.kl_cutoff_factor, QZero)
    THEN QEq(CutoffTerm, QZero)
    ELSE /\ QEq(CutoffTerm, CutoffFormula)
         /\ QLeq(QMean(MaskedKL), CutoffThreshold) => QEq(CutoffTerm, QZero)
         /\ (/\ QGreater(cfg.kl_cutoff_coef, QZero)
             /\ QGreater(QMean(MaskedKL), CutoffThreshold))
              => QGreater(CutoffTerm, QZero)
         /\ QEq(cfg.kl_cutoff_coef, QZero) => QEq(CutoffTerm, QZero)

\* a positive factor and coefficient, a positive threshold and a mean KL above
\* it: the term is 1000 * (0.03 - 0.02)^2
C15_Witness ==
  /\ Len(fn_out) >= 1
  /\ QGreater(cfg.kl_cutoff_factor, QZero)
  /\ QGreater(cfg.kl_cutoff_coef, QZero)
  /\ QGreater(CutoffThreshold, QZero)
  /\ QGreater(QMean(MaskedKL), CutoffThreshold)
  /\ QEq(CutoffTerm, Q(1, 10))

\* ------------------------------------------------------------------------
\* The reported totals
\* ------------------------------------------------------------------------
\* C16: with a single epoch the total loss reported for the call is that
\* epoch's total_loss, the sum of its five terms, negative terms included.
C16_SingleEpochTotalReported ==
  (Len(fn_out) = 2 /\ fn_out[2].num_epochs = 1) =>
    QEq(fn_out[2].total_loss, fn_out[1].total_loss)

\* ------------------------------------------------------------------------
\* The five-term total
\* ------------------------------------------------------------------------
LossNames ==
  {"policy_gradient_loss", "value_estimation_loss", "l2_regularization_loss",
   "entropy_regularization_loss", "kl_penalty_loss"}

L2Disabled ==
  QLeq(cfg.policy_l2_reg, QZero) /\ QLeq(cfg.value_function_l2_reg, QZero)

EntropyDisabled == QLeq(cfg.entropy_regularization, QZero)

CutoffDisabled ==
  QLeq(cfg.kl_cutoff_factor, QZero) \/ QEq(cfg.kl_cutoff_coef, QZero)

ShapesMatch ==
  /\ Len(fn_in.rewards) = Len(fn_in.discounts)
  /\ Len(fn_in.returns) = Len(fn_in.rewards)
  /\ Len(fn_in.value_preds) = Len(fn_in.rewards) + 1

\* C17: when the time lengths of rewards, discounts, returns and value
\* predictions do not match (value predictions one longer than the rest),
\* compute_returns and compute_advantages fail before any scan: no returns
\* when rewards and discounts differ, and from compute_advantages neither
\* advantages nor an error raised only inside the scan.
C17_MismatchRejected ==
  /\ (Len(fn_out) >= 1 /\ Len(fn_in.rewards) # Len(fn_in.discounts))
       => ~fn_out[1].ok
  /\ (Len(fn_out) = 2 /\ ~ShapesMatch)
       => fn_out[2].error \notin {"none", "scan"}

\* ------------------------------------------------------------------------
\* Numerical checks
\* ------------------------------------------------------------------------
\* the intermediates of the step: the new policy's log-probability as the
\* distribution gives it and as used, the importance ratio, the five losses
Intermediates ==
  {fn_in.raw_action_log_prob, fn_out[1].action_log_prob,
   fn_out[1].importance_ratio, fn_out[1].policy_gradient_loss,
   fn_in.value_estimation_loss, fn_in.l2_regularization_loss,
   fn_in.entropy_regularization_loss, fn_in.kl_penalty_loss}

\* C18: with check_numerics set, a NaN or an infinity in the new policy's
\* log-probability, the importance ratio or one of the five losses fails
\* the training step; with it unset the step never fails with a numerical
\* error.
C18_NumericsChecked ==
  Len(fn_out) = 1 =>
    /\ (fn_in.check_numerics /\ Intermediates # {"finite"})
         => fn_out[1].failed # {}
    /\ ~fn_in.check_numerics => fn_out[1].failed = {}

\* ------------------------------------------------------------------------
\* The agent without an adaptive KL controller
\* ------------------------------------------------------------------------
ControllerDisabled == QLeq(cfg.initial_adaptive_kl_beta, QZero)

\* C19: constructed with initial_adaptive_kl_beta <= 0 the agent has no beta
\* variable, in every call: the beta update writes nothing and cannot fail,
\* the adaptive KL loss of every epoch is 0 whatever the KL, and the order
\* is as with a controller: epochs in sequence, the (empty) beta update
\* after the last epoch, the normalizer updates after it, then completion.
C19_NoControllerNoOp ==
  /\ InitAdaptiveKLBeta(Q(-1, 1)) = None
  /\ ControllerDisabled =>
       /\ adaptive_kl_beta = None
       /\ start.beta = None
       /\ tensors.beta_update = <<>>
       /\ start.written = <<>>
       /\ OpUpdateBeta \in Done => status # "failed"
       /\ tensors.adaptive_kl_loss \in {<<>>, <<QZero>>}
       /\ \A i \in 0..(MaxEpochs - 1) :
            /\ OnlyAfter(Op("train", i), Op("loss", i))
            /\ OnlyAfter(Op("loss", i + 1), Op("train", i))
       /\ OnlyAfter(OpUpdateBeta, LastTrainOp(cfg))
       /\ OnlyAfter(OpObsNorm, OpUpdateBeta)
       /\ OnlyAfter(OpRewardNorm, OpUpdateBeta)
       /\ OnlyAfter(OpIdentity, OpObsNorm)
       /\ OnlyAfter(OpIdentity, OpRewardNorm)
       /\ Completed =>
            /\ Cardinality(TrainOpsDone) = cfg.num_epochs
            /\ {OpUpdateBeta, OpObsNorm, OpRewardNorm} \subseteq Done

\* without a controller a first call has completed, its beta update included,
\* and in the second call the losses of the second epoch have just been
\* computed on valid timesteps with a KL above zero
C19_Witness ==
  /\ ControllerDisabled
  /\ calls = 2
  /\ status = "running"
  /\ Len(log) >= 1
  /\ log[Len(log)].op = Op("loss", 1)
  /\ QGreater(QMean(TensorMul(policy_kl, tensors.valid_mask)), QZero)
  /\ tensors.adaptive_kl_loss = <<QZero>>

\* ------------------------------------------------------------------------
\* The fixed batch of a call
\* ------------------------------------------------------------------------
\* the ops whose tensors every epoch receives
BatchOps == {OpValuePreds, OpValidMask, OpReturns}

TimesRun(op) == Cardinality({k \in 1..Len(log) : log[k].op = op})

\* C22: in a call the returns and advantages and the valid mask are computed
\* once, before the first weight update, from the value predictions of the
\* weights the call started with; every epoch's losses come after them and
\* no weight update changes them.  The old log-probabilities and
\* distribution parameters are read off the experience, which is the same
\* for the whole call.
C22_BatchFixedForCall ==
  /\ \A op \in BatchOps :
       /\ TimesRun(op) <= 1
       /\ OnlyAfter(Op("train", 0), op)
       /\ \A i \in 0..(MaxEpochs - 1) : OnlyAfter(Op("loss", i), op)
       /\ \A k \in 1..Len(log) : log[k].op = op => log[k].weights = start.weights
  /\ tensors.value_preds \in {-1, start.weights}
  /\ tensors.returns # <<>> =>
       /\ tensors.returns[1].value_preds = start.weights
       /\ tensors.returns[1].reward_norm = start.rew
  /\ tensors.valid_mask # <<>> =>
       tensors.valid_mask = make_timestep_mask(start.experience)
  /\ status = "running" => experience = start.experience
  /\ (OpReturns \in Done) <=> (tensors.returns # <<>>)
  /\ (OpValidMask \in Done) <=> (tensors.valid_mask # <<>>)

\* a second call of two epochs has completed: the weights moved twice and the
\* returns are still those of the weights the call started with
C22_Witness ==
  /\ Completed
  /\ calls = 2
  /\ cfg.num_epochs >= 2
  /\ weights = start.weights + 2
  /\ start.weights > 0
  /\ tensors.returns # <<>>
  /\ tensors.returns[1].value_preds = start.weights
  /\ \E t \in 1..TimeLen : tensors.valid_mask[t] = QOne
  /\ \E t \in 1..TimeLen : tensors.valid_mask[t] = QZero

\* ------------------------------------------------------------------------
\* A call that a numerical check ends
\* ------------------------------------------------------------------------
\* the call failed, and not in the beta update
NumericalFailure == status = "failed" /\ OpUpdateBeta \notin Done

\* the epoch the failure is in: the last one whose losses were computed
FailedEpoch ==
  CHOOSE i \in 0..(MaxEpochs - 1) :
    Op("loss", i) \in Done /\ Op("loss", i + 1) \notin Done

\* C23: when a numerical check fails in epoch k, nothing more of the call
\* runs: no later epoch, no beta update, no normalizer update, no
\* completion; beta and both normalizers are as before the call; and the
\* weight updates of epochs 0..k-1 stay applied.
C23_FailureStopsCall ==
  NumericalFailure =>
    LET k == FailedEpoch
    IN  /\ ~ENABLED Next
        /\ \A i \in 0..(MaxEpochs - 1) :
             /\ i > k => Op("loss", i) \notin Done /\ Op("train", i) \notin Done
             /\ i < k => Op("train", i) \in Done
        /\ {OpKL, OpUpdateBeta, OpObsNorm, OpRewardNorm, OpIdentity} \cap Done = {}
        /\ adaptive_kl_beta = start.beta
        /\ observation_normalizer = start.obs
        /\ reward_normalizer = start.rew
        /\ weights >= start.weights + k
        /\ weights <= start.weights + k + 1

\* the second epoch of a second call fails, with a controller and both
\* normalizers, all of them changed by the first call: the first epoch's
\* weight update stays
C23_Witness ==
  /\ NumericalFailure
  /\ calls = 2
  /\ FailedEpoch = 1
  /\ weights = start.weights + 1
  /\ start.beta # None
  /\ start.written # <<>>
  /\ start.obs # NoNormalizer /\ start.obs.count > 0
  /\ start.rew # NoNormalizer /\ start.rew.count > 0

\* ------------------------------------------------------------------------
\* Calls that overlap
\* ------------------------------------------------------------------------
Events == fn_out.events

At(e) == CHOOSE k \in 1..Len(Events) : Events[k] = e

Happened(e) == \E k \in 1..Len(Events) : Events[k] = e

Before(e, f) == Happened(e) /\ Happened(f) /\ At(e) < At(f)

\* the update of caller p applied to the beta b
UpdateOf(p, b) == new_adaptive_kl_beta(b, QMean(fn_in[p]), cfg)

BothAssigned == \A p \in Callers : Happened(<<"assign", p>>)

\* C24: nothing synchronizes the beta updates of two calls.  Beta is always
\* what the last assign wrote, computed from the beta its caller read.  When
\* one call's update is over before the other reads, beta ends as the two
\* updates composed; when both read before either assigns, beta ends as the
\* later assigner's update of the beta both read, the other update lost.
C24_LastAssignWins ==
  adaptive_kl_beta # None =>
    /\ (\A p \in Callers : ~Happened(<<"assign", p>>))
         => adaptive_kl_beta = start.beta
    /\ \A p \in Callers : \A q \in Callers \ {p} :
         /\ (Happened(<<"assign", p>>) /\ ~Before(<<"assign", p>>, <<"assign", q>>))
              => adaptive_kl_beta = UpdateOf(p, fn_out.read[p])
         /\ (BothAssigned /\ Before(<<"assign", q>>, <<"read", p>>))
              => adaptive_kl_beta = UpdateOf(p, UpdateOf(q, start.beta))
         /\ (BothAssigned /\ Before(<<"read", q>>, <<"assign", p>>)
                          /\ Before(<<"read", p>>, <<"assign", q>>)
                          /\ Before(<<"assign", q>>, <<"assign", p>>))
              => adaptive_kl_beta = UpdateOf(p, start.beta)

\* both calls read the beta 1.0 and both saw a KL above the band: beta ends
\* at 1.5, one update, where the calls one after the other give 2.25
C24_Witness ==
  /\ BothAssigned
  /\ start.beta = QOne
  /\ fn_out.read[1] = QOne /\ fn_out.read[2] = QOne
  /\ Before(<<"read", 1>>, <<"assign", 2>>)
  /\ Before(<<"read", 2>>, <<"assign", 1>>)
  /\ QEq(adaptive_kl_beta, Q(3, 2))
  /\ QEq(UpdateOf(2, UpdateOf(1, start.beta)), Q(9, 4))

====
